---- MODULE Spec2Model ----
(***************************************************************************)
(* Permission matching, permission-list checks and the authorization       *)
(* context of the shared-platform Python SDK.                              *)
(*                                                                         *)
(* A Python str is a sequence of one-character strings, so that            *)
(* str.split is computed rather than assumed: "u:r" is <<"u", ":", "r">>.  *)
(***************************************************************************)
EXTENDS Integers, Sequences, FiniteSets, TLC

VARIABLES
    user_permission,    \* matches_permission: the granted permission argument
    required,           \* matches_permission: the required permission argument
    result,             \* matches_permission: the value returned
    user_permissions,   \* has_any_permission / has_all_permissions: the granted list
    required_list,      \* has_any_permission / has_all_permissions: the required list
    list_result,        \* has_any_permission / has_all_permissions: the value returned
    token,              \* get_user_context: the access token argument
    outcome,            \* get_user_context: the context returned or the exception raised
    permission,         \* UserContext.has_permission: the permission asked for
    allowed,            \* UserContext.has_permission: the value returned
    asked_role,         \* has_role: the role name asked for
    role_names,         \* has_any_role: the role names asked for
    answer,             \* has_role / has_any_role / is_admin / is_super_admin: the value returned
    resolve_role,       \* get_role_permissions: the role name argument
    resolved,           \* get_role_permissions: the set returned
    clients,            \* UserClient / NotificationClient: _access_token and _http.headers of each
    set_calls,          \* per client, the tokens passed to set_access_token so far, in order
    requests,           \* per client, the requests sent: the Authorization header each carried
    calls,              \* number of client calls made so far
    http_clients,       \* context managers: per client, the number of self._http.close() calls
    with_blocks,        \* context managers: per client, the position of its with statement
    login_client,       \* AuthClient.login: client_id and client_secret of the client
    login_response,     \* AuthClient.login: the server's answer to POST /token
    login_request,      \* AuthClient.login: the form data posted
    login_outcome,      \* AuthClient.login: the TokenResponse returned or the exception raised
    api_requests,       \* FastAPI example: per HTTP request, its bearer token, route, position and the header its SDK call carried
    grant_case,         \* grant comparison: the granted and the required list of the first call
    grant_results,      \* grant comparison: the changed lists and the results of both pairs of calls
    signed_tokens,      \* two signed tokens handed to get_user_context
    signed_outcomes,    \* the outcome of get_user_context for each of the two tokens
    auth_http_calls,    \* AuthClient: the requests sent through self._http so far
    lazy_self,          \* RoleClient / TeamClient / InvitationClient: the class, _access_token and _client
    lazy_heap,          \* the httpx.Client objects created so far: headers and number of close() calls of each
    lazy_sent,          \* the requests sent: the client object used and the Authorization header carried
    lazy_supplied,      \* the token most recently supplied by the constructor or set_access_token
    lazy_last,          \* the call made last
    invitation_token,   \* validate_token / accept: the invitation token argument
    invitation_response, \* validate_token / accept: the server's answer
    invitation_outcome, \* validate_token / accept: the object returned or the exception raised
    flag_key,           \* evaluate / is_enabled / get_value: the flag key argument
    flag_default,       \* evaluate / is_enabled / get_value: the default argument
    flag_response,      \* evaluate: the server's answer to the evaluate request
    flag_outcome,       \* evaluate / is_enabled / get_value: the value returned or the exception raised
    chain,              \* three permission strings a, b, c handed to matches_permission pairwise
    chain_results,      \* matches_permission(a, b), (b, c), (a, c) and (a, a)
    pc                  \* position of the running call

vars == <<user_permission, required, result,
          user_permissions, required_list, list_result,
          token, outcome, permission, allowed,
          asked_role, role_names, answer, resolve_role, resolved,
          clients, set_calls, requests, calls,
          http_clients, with_blocks,
          login_client, login_response, login_request, login_outcome,
          api_requests,
          grant_case, grant_results,
          signed_tokens, signed_outcomes, auth_http_calls,
          lazy_self, lazy_heap, lazy_sent, lazy_supplied, lazy_last,
          invitation_token, invitation_response, invitation_outcome,
          flag_key, flag_default, flag_response, flag_outcome,
          chain, chain_results, pc>>

matcherVars == <<user_permission, required, result>>
listVars == <<user_permissions, required_list, list_result>>
ctxVars == <<token, outcome, permission, allowed>>
roleVars == <<asked_role, role_names, answer>>
resolveVars == <<resolve_role, resolved>>
clientVars == <<clients, set_calls, requests, calls>>
withVars == <<http_clients, with_blocks>>
loginVars == <<login_client, login_response, login_request, login_outcome>>
apiVars == <<api_requests>>
grantVars == <<grant_case, grant_results>>
signedVars == <<signed_tokens, signed_outcomes, auth_http_calls>>
lazyVars == <<lazy_self, lazy_heap, lazy_sent, lazy_supplied, lazy_last>>
invitationVars == <<invitation_token, invitation_response, invitation_outcome>>
flagVars == <<flag_key, flag_default, flag_response, flag_outcome>>
chainVars == <<chain, chain_results>>

----------------------------------------------------------------------------
(* Bounds and input alphabets *)

\* Longest permission string the matcher is called with.
MaxLen == 3

\* Characters of the matcher's input strings: two letters, the wildcard
\* character and the separator.
Alphabet == {"u", "r", "*", ":"}

RECURSIVE StringsUpTo(_)
StringsUpTo(n) ==
    IF n = 0 THEN {<<>>}
    ELSE LET shorter == StringsUpTo(n - 1)
         IN shorter \cup {Append(s, c) : s \in {t \in shorter : Len(t) = n - 1}, c \in Alphabet}

Strings == StringsUpTo(MaxLen)

\* Longest granted list and longest required list of the list checks.
MaxList == 2

\* Permission strings of the list checks: the super-wildcard, exact and
\* wildcard grants on two resources, and a string without separator.
USERS == <<"u", "s", "e", "r", "s">>
READ == <<"r", "e", "a", "d">>
WRITE == <<"w", "r", "i", "t", "e">>
REPORTS == <<"r", "e", "p", "o", "r", "t", "s">>
SETTINGS == <<"s", "e", "t", "t", "i", "n", "g", "s">>
Perm(res, act) == res \o <<":">> \o act

PermPool ==
    {<<"*">>, Perm(USERS, READ), Perm(USERS, <<"*">>), Perm(REPORTS, READ), USERS}

RECURSIVE ListsUpTo(_, _)
ListsUpTo(S, n) ==
    IF n = 0 THEN {<<>>}
    ELSE LET shorter == ListsUpTo(S, n - 1)
         IN shorter \cup {Append(l, x) : l \in {t \in shorter : Len(t) = n - 1}, x \in S}

----------------------------------------------------------------------------
(* str.split(sep) with an explicit separator: never drops empty segments,   *)
(* "".split(":") is [""], "a:".split(":") is ["a", ""].                      *)

RECURSIVE SplitFrom(_, _, _, _)
SplitFrom(s, sep, i, cur) ==
    IF i > Len(s) THEN <<cur>>
    ELSE IF s[i] = sep THEN <<cur>> \o SplitFrom(s, sep, i + 1, <<>>)
    ELSE SplitFrom(s, sep, i + 1, Append(cur, s[i]))

split(s, sep) == SplitFrom(s, sep, 1, <<>>)

\* The one-character string "*".
STAR == <<"*">>

----------------------------------------------------------------------------
(* Faulty variants of matches_permission, used to show that the checked     *)
(* properties depend on the matcher.                                        *)

\* The action comparison is left out.
matches_permission_no_action(user_perm, req) ==
    LET user_parts == split(user_perm, ":")
        required_parts == split(req, ":")
    IN  IF Len(user_parts) # 2 \/ Len(required_parts) # 2 THEN FALSE
        ELSE user_parts[1] = STAR \/ user_parts[1] = required_parts[1]

\* The action is compared with the required resource.
matches_permission_wrong_part(user_perm, req) ==
    LET user_parts == split(user_perm, ":")
        required_parts == split(req, ":")
    IN  IF Len(user_parts) # 2 \/ Len(required_parts) # 2 THEN FALSE
        ELSE /\ (user_parts[1] = STAR \/ user_parts[1] = required_parts[1])
             /\ (user_parts[2] = STAR \/ user_parts[2] = required_parts[1])

\* The wildcard is honoured on the resource only.
matches_permission_no_action_wildcard(user_perm, req) ==
    LET user_parts == split(user_perm, ":")
        required_parts == split(req, ":")
    IN  IF Len(user_parts) # 2 \/ Len(required_parts) # 2 THEN FALSE
        ELSE /\ (user_parts[1] = STAR \/ user_parts[1] = required_parts[1])
             /\ user_parts[2] = required_parts[2]

\* The wildcard is honoured on either side: a required "*" segment is
\* satisfied by any granted segment.
matches_permission_wildcard_either_side(user_perm, req) ==
    LET user_parts == split(user_perm, ":")
        required_parts == split(req, ":")
    IN  IF Len(user_parts) # 2 \/ Len(required_parts) # 2 THEN FALSE
        ELSE /\ (user_parts[1] = STAR \/ required_parts[1] = STAR
                    \/ user_parts[1] = required_parts[1])
             /\ (user_parts[2] = STAR \/ required_parts[2] = STAR
                    \/ user_parts[2] = required_parts[2])

----------------------------------------------------------------------------
(* permissions/client.py: matches_permission *)

matches_permission(user_perm, req) ==
    LET user_parts == split(user_perm, ":")
        required_parts == split(req, ":")
    IN  IF Len(user_parts) # 2 \/ Len(required_parts) # 2 THEN FALSE
        ELSE LET user_resource == user_parts[1]
                 user_action == user_parts[2]
                 req_resource == required_parts[1]
                 req_action == required_parts[2]
             IN  IF user_resource # STAR /\ user_resource # req_resource THEN FALSE
                 ELSE IF user_action # STAR /\ user_action # req_action THEN FALSE
                 ELSE TRUE

----------------------------------------------------------------------------
(* permissions/client.py: has_any_permission, has_all_permissions.          *)
(* The loops are unrolled as the code runs them: i walks the required        *)
(* list, j the granted list.                                                 *)

RECURSIVE AnyLoop(_, _, _, _)
AnyLoop(perms, reqs, i, j) ==
    IF i > Len(reqs) THEN FALSE                          \* return False
    ELSE IF j > Len(perms) THEN AnyLoop(perms, reqs, i + 1, 1)
    ELSE IF matches_permission(perms[j], reqs[i]) THEN TRUE   \* return True
    ELSE AnyLoop(perms, reqs, i, j + 1)

\* Faulty variant: only the first granted permission is looked at.
has_any_permission_first_granted(perms, reqs) ==
    IF perms = <<>> THEN FALSE ELSE AnyLoop(<<perms[1]>>, reqs, 1, 1)

\* Faulty variant: gives up after the first required permission.
has_any_permission_first_only(perms, reqs) ==
    IF reqs = <<>> THEN FALSE ELSE AnyLoop(perms, <<reqs[1]>>, 1, 1)

has_any_permission(perms, reqs) == AnyLoop(perms, reqs, 1, 1)

RECURSIVE AllLoop(_, _, _, _, _)
AllLoop(perms, reqs, i, j, found) ==
    IF i > Len(reqs) THEN TRUE                           \* return True
    ELSE IF found THEN AllLoop(perms, reqs, i + 1, 1, FALSE)      \* break
    ELSE IF j > Len(perms) THEN FALSE                    \* if not found: return False
    ELSE AllLoop(perms, reqs, i, j + 1, matches_permission(perms[j], reqs[i]))

\* Faulty variant: found is set once and never reset for the next required
\* permission.
RECURSIVE AllLoopSticky(_, _, _, _, _)
AllLoopSticky(perms, reqs, i, j, found) ==
    IF i > Len(reqs) THEN TRUE
    ELSE IF found THEN AllLoopSticky(perms, reqs, i + 1, 1, TRUE)
    ELSE IF j > Len(perms) THEN FALSE
    ELSE AllLoopSticky(perms, reqs, i, j + 1, matches_permission(perms[j], reqs[i]))

has_all_permissions_sticky(perms, reqs) == AllLoopSticky(perms, reqs, 1, 1, FALSE)

has_all_permissions(perms, reqs) == AllLoop(perms, reqs, 1, 1, FALSE)

----------------------------------------------------------------------------
(* Values of the authorization context *)

\* Python's None. No claim value of the model is this string.
None == "None"

\* A call that returned v; a call that raised exception e.
Return(v) == [exc |-> "none", ret |-> v]
Raise(e) == [exc |-> e]

\* The value of outcome before get_user_context has run, and of token in the
\* specifications that decode no token.
NoOutcome == [exc |-> "pending"]
NoToken == [kind |-> "none"]

\* dict.get(key, default)
Get(d, key, default) == IF key \in DOMAIN d THEN d[key] ELSE default

\* str.split() without separator: runs of whitespace separate, no empty
\* string is produced.
Whitespace == {" ", "\t"}

RECURSIVE SplitWhitespaceFrom(_, _, _)
SplitWhitespaceFrom(s, i, cur) ==
    LET word == IF cur = <<>> THEN <<>> ELSE <<cur>>
    IN  IF i > Len(s) THEN word
        ELSE IF s[i] \in Whitespace THEN word \o SplitWhitespaceFrom(s, i + 1, <<>>)
        ELSE SplitWhitespaceFrom(s, i + 1, Append(cur, s[i]))

split_whitespace(s) == SplitWhitespaceFrom(s, 1, <<>>)

----------------------------------------------------------------------------
(* auth/roles.py and auth/models.py are not among the sources: the role     *)
(* table, the role resolver, the auth matcher and UserContext are modelled  *)
(* from the specification and from the SDK's tests of them.                 *)

TEAM == <<"t", "e", "a", "m">>
PROFILE == <<"p", "r", "o", "f", "i", "l", "e">>
NOTIFICATIONS == <<"n", "o", "t", "i", "f", "i", "c", "a", "t", "i", "o", "n", "s">>

\* The built-in role table: direct permissions and parent roles.
ROLES ==
    [super_admin |-> [permissions |-> {<<"*">>}, inherits |-> {}],
     admin       |-> [permissions |-> {Perm(USERS, <<"*">>), Perm(SETTINGS, <<"*">>)},
                      inherits |-> {"manager"}],
     manager     |-> [permissions |-> {Perm(TEAM, <<"*">>)}, inherits |-> {"user"}],
     user        |-> [permissions |-> {Perm(PROFILE, <<"*">>), Perm(NOTIFICATIONS, READ)},
                      inherits |-> {}]]

\* The role resolver: direct permissions and those of every ancestor; the
\* empty set for an unknown role.
RECURSIVE get_role_permissions_default_user(_)
\* Faulty variant: only the direct permissions, no inheritance.
get_role_permissions_direct_only(role) ==
    IF role \notin DOMAIN ROLES THEN {} ELSE ROLES[role].permissions

\* Faulty variant: an unknown role falls back to the permissions of role user.
get_role_permissions_default_user(role) ==
    IF role \notin DOMAIN ROLES THEN ROLES["user"].permissions
    ELSE ROLES[role].permissions
         \cup UNION {get_role_permissions_default_user(parent) : parent \in ROLES[role].inherits}

RECURSIVE get_role_permissions(_)
get_role_permissions(role) ==
    IF role \notin DOMAIN ROLES THEN {}
    ELSE ROLES[role].permissions
         \cup UNION {get_role_permissions(parent) : parent \in ROLES[role].inherits}

\* The permission matcher of the specification: the bare "*" first, then two
\* non-empty segments on both sides, then the segment rule.
matches(granted_perm, req) ==
    IF granted_perm = <<"*">> THEN TRUE
    ELSE LET g == split(granted_perm, ":")
             r == split(req, ":")
         IN  /\ Len(g) = 2 /\ Len(r) = 2
             /\ g[1] # <<>> /\ g[2] # <<>> /\ r[1] # <<>> /\ r[2] # <<>>
             /\ (g[1] = <<"*">> \/ g[1] = r[1])
             /\ (g[2] = <<"*">> \/ g[2] = r[2])

\* check_permission(granted, required): some granted permission matches.
check_permission(granted, req) ==
    \E j \in 1..Len(granted) : matches(granted[j], req)

\* The UserContext value: the attributes as passed.
UserContext(user_id, email, email_verified, name, given_name, family_name, picture, roles, permissions, tenant_id, session_id, scopes, is_authenticated) ==
    [user_id |-> user_id, email |-> email, email_verified |-> email_verified,
     name |-> name, given_name |-> given_name, family_name |-> family_name,
     picture |-> picture, roles |-> roles, permissions |-> permissions,
     tenant_id |-> tenant_id, session_id |-> session_id, scopes |-> scopes,
     is_authenticated |-> is_authenticated]

\* UserContext.has_permission: the tests fix that the explicit permissions
\* decide (a context holding role admin is refused settings:read, although
\* admin's resolved permissions hold settings:*).
has_permission(context, perm) == check_permission(context.permissions, perm)

\* UserContext.has_role: the name is one of the context's own roles.
has_role(context, name) ==
    \E i \in 1..Len(context.roles) : context.roles[i] = name

\* UserContext.has_any_role: some name of the list is one of the context's roles.
has_any_role(context, names) ==
    \E j \in 1..Len(names) : has_role(context, names[j])

\* The permissions the context's roles resolve to.
RolePermissions(context) ==
    UNION {get_role_permissions(context.roles[i]) : i \in 1..Len(context.roles)}

\* The effective permission set: the explicit permissions and the resolved
\* permissions of every role.
EffectivePermissions(context) ==
    {context.permissions[j] : j \in 1..Len(context.permissions)}
    \cup RolePermissions(context)

\* UserContext.is_admin: role admin, role super_admin, or a role that
\* resolves to the super-wildcard.
is_admin(context) ==
    \/ has_role(context, "admin")
    \/ has_role(context, "super_admin")
    \/ <<"*">> \in RolePermissions(context)

\* UserContext.is_super_admin: role super_admin, or the super-wildcard among
\* the effective permissions.
is_super_admin(context) ==
    \/ has_role(context, "super_admin")
    \/ <<"*">> \in EffectivePermissions(context)

----------------------------------------------------------------------------
(* auth/client.py: AuthClient.get_user_context *)

\* jwt.decode(access_token, options={"verify_signature": False}): the claims
\* of a token that parses, DecodeError otherwise. Neither the signature nor
\* the expiry is looked at (tests/test_auth.py, test_get_user_context_expired).
jwt_decode(access_token) ==
    IF access_token.kind = "jwt" THEN Return(access_token.claims)
    ELSE Raise("DecodeError")

\* The UserContext(...) call of get_user_context on decoded claims.
ContextOf(claims) ==
    UserContext(Get(claims, "sub", None),
                Get(claims, "email", None),
                Get(claims, "email_verified", FALSE),
                Get(claims, "name", None),
                Get(claims, "given_name", None),
                Get(claims, "family_name", None),
                Get(claims, "picture", None),
                Get(claims, "roles", <<>>),
                Get(claims, "permissions", <<>>),
                Get(claims, "tenant_id", None),
                Get(claims, "session_id", None),
                IF Get(claims, "scope", <<>>) # <<>>
                    THEN split_whitespace(Get(claims, "scope", <<>>))
                    ELSE <<>>,
                TRUE)

RECURSIVE SetToSeq(_)
SetToSeq(S) ==
    IF S = {} THEN <<>>
    ELSE LET x == CHOOSE y \in S : TRUE IN <<x>> \o SetToSeq(S \ {x})

\* Faulty variant: the permissions claim is read under a wrong key, so the
\* context's explicit permissions are always the default.
get_user_context_no_permissions(access_token) ==
    LET decoded == jwt_decode(access_token)
    IN  IF decoded.exc = "ExpiredSignatureError" THEN Raise("TokenExpiredError")
        ELSE IF decoded.exc = "DecodeError" THEN Raise("InvalidTokenError")
        ELSE Return([ContextOf(decoded.ret) EXCEPT !.permissions = <<>>])

\* Faulty variant: the resolved permissions of the token's roles are added
\* to the context's explicit permissions.
get_user_context_role_permissions(access_token) ==
    LET decoded == jwt_decode(access_token)
    IN  IF decoded.exc = "ExpiredSignatureError" THEN Raise("TokenExpiredError")
        ELSE IF decoded.exc = "DecodeError" THEN Raise("InvalidTokenError")
        ELSE LET c == ContextOf(decoded.ret)
                 inherited == UNION {get_role_permissions(c.roles[i]) : i \in 1..Len(c.roles)}
             IN  Return([c EXCEPT !.permissions = @ \o SetToSeq(inherited)])

\* Faulty variant: the roles claim is read under a wrong key, so the
\* context's roles are always the default.
get_user_context_no_roles(access_token) ==
    LET decoded == jwt_decode(access_token)
    IN  IF decoded.exc = "ExpiredSignatureError" THEN Raise("TokenExpiredError")
        ELSE IF decoded.exc = "DecodeError" THEN Raise("InvalidTokenError")
        ELSE Return([ContextOf(decoded.ret) EXCEPT !.roles = <<>>])

\* Faulty variant: a token without roles claim gets the role user.
get_user_context_default_role(access_token) ==
    LET decoded == jwt_decode(access_token)
    IN  IF decoded.exc = "ExpiredSignatureError" THEN Raise("TokenExpiredError")
        ELSE IF decoded.exc = "DecodeError" THEN Raise("InvalidTokenError")
        ELSE Return([ContextOf(decoded.ret) EXCEPT
                        !.roles = Get(decoded.ret, "roles", <<"user">>)])

\* Faulty variant: the scope claim is split on the single space character.
get_user_context_scope_split_on_space(access_token) ==
    LET decoded == jwt_decode(access_token)
    IN  IF decoded.exc = "ExpiredSignatureError" THEN Raise("TokenExpiredError")
        ELSE IF decoded.exc = "DecodeError" THEN Raise("InvalidTokenError")
        ELSE Return([ContextOf(decoded.ret) EXCEPT
                        !.scopes = IF Get(decoded.ret, "scope", <<>>) # <<>>
                                       THEN split(Get(decoded.ret, "scope", <<>>), " ")
                                       ELSE <<>>])

\* Faulty variant: the except clause for jwt.DecodeError is missing, so the
\* library's exception escapes.
get_user_context_no_decode_handler(access_token) ==
    LET decoded == jwt_decode(access_token)
    IN  IF decoded.exc = "ExpiredSignatureError" THEN Raise("TokenExpiredError")
        ELSE IF decoded.exc # "none" THEN Raise(decoded.exc)
        ELSE Return(ContextOf(decoded.ret))

\* Faulty variant: the signature is verified (against the key "key1")
\* before the claims are read.
get_user_context_verifies_signature(access_token) ==
    LET decoded == jwt_decode(access_token)
    IN  IF decoded.exc = "ExpiredSignatureError" THEN Raise("TokenExpiredError")
        ELSE IF decoded.exc = "DecodeError" THEN Raise("InvalidTokenError")
        ELSE IF access_token.signature # "key1" THEN Raise("InvalidTokenError")
        ELSE Return(ContextOf(decoded.ret))

get_user_context(access_token) ==
    LET decoded == jwt_decode(access_token)
    IN  IF decoded.exc = "ExpiredSignatureError" THEN Raise("TokenExpiredError")
        ELSE IF decoded.exc = "DecodeError" THEN Raise("InvalidTokenError")
        ELSE Return(ContextOf(decoded.ret))

----------------------------------------------------------------------------
(* Specification Spec: one call of matches_permission on any two strings *)

Init ==
    /\ user_permission \in Strings
    /\ required \in Strings
    /\ result = FALSE
    /\ user_permissions = <<>>
    /\ required_list = <<>>
    /\ list_result = FALSE
    /\ token = NoToken
    /\ outcome = NoOutcome
    /\ permission = <<>>
    /\ allowed = FALSE
    /\ asked_role = ""
    /\ role_names = <<>>
    /\ answer = FALSE
    /\ resolve_role = ""
    /\ resolved = {}
    /\ clients = <<>>
    /\ set_calls = <<>>
    /\ requests = <<>>
    /\ calls = 0
    /\ http_clients = <<>>
    /\ with_blocks = <<>>
    /\ login_client = <<>>
    /\ login_response = <<>>
    /\ login_request = <<>>
    /\ login_outcome = NoOutcome
    /\ api_requests = <<>>
    /\ grant_case = <<>>
    /\ grant_results = <<>>
    /\ signed_tokens = <<>>
    /\ signed_outcomes = <<>>
    /\ auth_http_calls = <<>>
    /\ lazy_self = <<>>
    /\ lazy_heap = <<>>
    /\ lazy_sent = <<>>
    /\ lazy_supplied = None
    /\ lazy_last = None
    /\ invitation_token = ""
    /\ invitation_response = <<>>
    /\ invitation_outcome = NoOutcome
    /\ flag_key = ""
    /\ flag_default = <<>>
    /\ flag_response = <<>>
    /\ flag_outcome = NoOutcome
    /\ chain = <<>>
    /\ chain_results = <<>>
    /\ pc = "call"

MatchesPermission ==
    /\ pc = "call"
    /\ result' = matches_permission(user_permission, required)
    /\ pc' = "done"
    /\ UNCHANGED <<user_permission, required, listVars, ctxVars, roleVars, resolveVars, clientVars, withVars, loginVars, apiVars, grantVars, signedVars, lazyVars, invitationVars, flagVars, chainVars>>

Next == MatchesPermission

Spec == Init /\ [][Next]_vars

----------------------------------------------------------------------------
(* Specification SpecLists: one call of has_any_permission or of             *)
(* has_all_permissions on any two lists over PermPool                        *)

InitLists ==
    /\ user_permission = <<>>
    /\ required = <<>>
    /\ result = FALSE
    /\ user_permissions \in ListsUpTo(PermPool, MaxList)
    /\ required_list \in ListsUpTo(PermPool, MaxList)
    /\ list_result = FALSE
    /\ token = NoToken
    /\ outcome = NoOutcome
    /\ permission = <<>>
    /\ allowed = FALSE
    /\ asked_role = ""
    /\ role_names = <<>>
    /\ answer = FALSE
    /\ resolve_role = ""
    /\ resolved = {}
    /\ clients = <<>>
    /\ set_calls = <<>>
    /\ requests = <<>>
    /\ calls = 0
    /\ http_clients = <<>>
    /\ with_blocks = <<>>
    /\ login_client = <<>>
    /\ login_response = <<>>
    /\ login_request = <<>>
    /\ login_outcome = NoOutcome
    /\ api_requests = <<>>
    /\ grant_case = <<>>
    /\ grant_results = <<>>
    /\ signed_tokens = <<>>
    /\ signed_outcomes = <<>>
    /\ auth_http_calls = <<>>
    /\ lazy_self = <<>>
    /\ lazy_heap = <<>>
    /\ lazy_sent = <<>>
    /\ lazy_supplied = None
    /\ lazy_last = None
    /\ invitation_token = ""
    /\ invitation_response = <<>>
    /\ invitation_outcome = NoOutcome
    /\ flag_key = ""
    /\ flag_default = <<>>
    /\ flag_response = <<>>
    /\ flag_outcome = NoOutcome
    /\ chain = <<>>
    /\ chain_results = <<>>
    /\ pc = "call"

HasAnyPermission ==
    /\ pc = "call"
    /\ list_result' = has_any_permission(user_permissions, required_list)
    /\ pc' = "any"
    /\ UNCHANGED <<matcherVars, user_permissions, required_list, ctxVars, roleVars, resolveVars, clientVars, withVars, loginVars, apiVars, grantVars, signedVars, lazyVars, invitationVars, flagVars, chainVars>>

HasAllPermissions ==
    /\ pc = "call"
    /\ list_result' = has_all_permissions(user_permissions, required_list)
    /\ pc' = "all"
    /\ UNCHANGED <<matcherVars, user_permissions, required_list, ctxVars, roleVars, resolveVars, clientVars, withVars, loginVars, apiVars, grantVars, signedVars, lazyVars, invitationVars, flagVars, chainVars>>

NextLists == HasAnyPermission \/ HasAllPermissions

SpecLists == InitLists /\ [][NextLists]_vars

----------------------------------------------------------------------------
(* Specification SpecCtx: get_user_context on any token of the model, then   *)
(* has_permission on the context it returned                                 *)

\* A claim that may be absent: <<>> when absent, <<v>> when it is v.
Optional(S) == {<<>>} \cup {<<v>> : v \in S}

\* The claims mapping holding exactly the claims that are present.
ClaimsOf(opt) == [k \in {key \in DOMAIN opt : opt[key] # <<>>} |-> opt[k][1]]

Subjects == {"", "u1"}
RoleLists == {<<>>, <<"user">>, <<"admin">>, <<"user", "admin">>, <<"super_admin">>}
TokenPermPool == {<<"*">>, Perm(USERS, READ), Perm(USERS, WRITE), Perm(USERS, <<"*">>)}
Tenants == {"t1"}
ScopeStrings ==
    {<<>>, <<"r", " ", "w">>, <<"r", " ", " ", "r", " ">>, <<"r", "w", "\t", "r">>}
AskedPermissions == {Perm(USERS, READ), Perm(USERS, WRITE), Perm(SETTINGS, READ)}

ClaimSets ==
    {ClaimsOf([sub |-> s, roles |-> r, permissions |-> p, tenant_id |-> t, scope |-> sc]) :
        s \in Optional(Subjects), r \in Optional(RoleLists),
        p \in Optional(ListsUpTo(TokenPermPool, MaxList)),
        t \in Optional(Tenants), sc \in Optional(ScopeStrings)}

\* A token that parses into claims, expired or not; a string that does not.
\* Why a string does not parse into claims.
MalformedKinds == {"not_enough_segments", "invalid_padding", "payload_not_json_object"}

Tokens ==
    {[kind |-> "jwt", claims |-> c, expired |-> e] : c \in ClaimSets, e \in BOOLEAN}
    \cup {[kind |-> "malformed", why |-> w] : w \in MalformedKinds}

InitCtx ==
    /\ user_permission = <<>>
    /\ required = <<>>
    /\ result = FALSE
    /\ user_permissions = <<>>
    /\ required_list = <<>>
    /\ list_result = FALSE
    /\ token \in Tokens
    /\ outcome = NoOutcome
    /\ permission \in AskedPermissions
    /\ allowed = FALSE
    /\ asked_role = ""
    /\ role_names = <<>>
    /\ answer = FALSE
    /\ resolve_role = ""
    /\ resolved = {}
    /\ clients = <<>>
    /\ set_calls = <<>>
    /\ requests = <<>>
    /\ calls = 0
    /\ http_clients = <<>>
    /\ with_blocks = <<>>
    /\ login_client = <<>>
    /\ login_response = <<>>
    /\ login_request = <<>>
    /\ login_outcome = NoOutcome
    /\ api_requests = <<>>
    /\ grant_case = <<>>
    /\ grant_results = <<>>
    /\ signed_tokens = <<>>
    /\ signed_outcomes = <<>>
    /\ auth_http_calls = <<>>
    /\ lazy_self = <<>>
    /\ lazy_heap = <<>>
    /\ lazy_sent = <<>>
    /\ lazy_supplied = None
    /\ lazy_last = None
    /\ invitation_token = ""
    /\ invitation_response = <<>>
    /\ invitation_outcome = NoOutcome
    /\ flag_key = ""
    /\ flag_default = <<>>
    /\ flag_response = <<>>
    /\ flag_outcome = NoOutcome
    /\ chain = <<>>
    /\ chain_results = <<>>
    /\ pc = "start"

GetUserContext ==
    /\ pc = "start"
    /\ outcome' = get_user_context(token)
    /\ pc' = IF outcome'.exc = "none" THEN "context" ELSE "raised"
    /\ UNCHANGED <<matcherVars, listVars, token, permission, allowed, roleVars, resolveVars, clientVars, withVars, loginVars, apiVars, grantVars, signedVars, lazyVars, invitationVars, flagVars, chainVars>>

HasPermission ==
    /\ pc = "context"
    /\ allowed' = has_permission(outcome.ret, permission)
    /\ pc' = "checked"
    /\ UNCHANGED <<matcherVars, listVars, token, outcome, permission, roleVars, resolveVars, clientVars, withVars, loginVars, apiVars, grantVars, signedVars, lazyVars, invitationVars, flagVars, chainVars>>

\* Role names and lists of role names the role queries are called with.
AskedRoles == {"user", "manager", "admin", "super_admin", "unknown_role"}
AskedRoleLists == {<<>>, <<"admin", "manager">>, <<"admin", "super_admin">>}

HasRole ==
    /\ pc = "context"
    /\ \E r \in AskedRoles :
        /\ asked_role' = r
        /\ answer' = has_role(outcome.ret, r)
    /\ pc' = "has_role"
    /\ UNCHANGED <<matcherVars, listVars, ctxVars, role_names, resolveVars, clientVars, withVars, loginVars, apiVars, grantVars, signedVars, lazyVars, invitationVars, flagVars, chainVars>>

HasAnyRole ==
    /\ pc = "context"
    /\ \E rs \in AskedRoleLists :
        /\ role_names' = rs
        /\ answer' = has_any_role(outcome.ret, rs)
    /\ pc' = "has_any_role"
    /\ UNCHANGED <<matcherVars, listVars, ctxVars, asked_role, resolveVars, clientVars, withVars, loginVars, apiVars, grantVars, signedVars, lazyVars, invitationVars, flagVars, chainVars>>

IsAdmin ==
    /\ pc = "context"
    /\ answer' = is_admin(outcome.ret)
    /\ pc' = "is_admin"
    /\ UNCHANGED <<matcherVars, listVars, ctxVars, asked_role, role_names, resolveVars, clientVars, withVars, loginVars, apiVars, grantVars, signedVars, lazyVars, invitationVars, flagVars, chainVars>>

IsSuperAdmin ==
    /\ pc = "context"
    /\ answer' = is_super_admin(outcome.ret)
    /\ pc' = "is_super_admin"
    /\ UNCHANGED <<matcherVars, listVars, ctxVars, asked_role, role_names, resolveVars, clientVars, withVars, loginVars, apiVars, grantVars, signedVars, lazyVars, invitationVars, flagVars, chainVars>>

NextCtx ==
    \/ GetUserContext
    \/ HasPermission
    \/ HasRole
    \/ HasAnyRole
    \/ IsAdmin
    \/ IsSuperAdmin

SpecCtx == InitCtx /\ [][NextCtx]_vars

----------------------------------------------------------------------------
(* Specification SpecRoles: get_role_permissions on a role name, then        *)
(* check_permission with the permissions it returned                         *)

\* Role names resolved: the four built-in roles and names not in the table.
ResolvedRoles ==
    {"user", "manager", "admin", "super_admin", "unknown_role", "guest", ""}

DELETE == <<"d", "e", "l", "e", "t", "e">>

CheckedPermissions ==
    {Perm(res, act) :
        res \in {USERS, SETTINGS, TEAM, PROFILE, NOTIFICATIONS, REPORTS},
        act \in {READ, WRITE, DELETE}}

InitRoles ==
    /\ user_permission = <<>>
    /\ required = <<>>
    /\ result = FALSE
    /\ user_permissions = <<>>
    /\ required_list = <<>>
    /\ list_result = FALSE
    /\ token = NoToken
    /\ outcome = NoOutcome
    /\ permission = <<>>
    /\ allowed = FALSE
    /\ asked_role = ""
    /\ role_names = <<>>
    /\ answer = FALSE
    /\ resolve_role \in ResolvedRoles
    /\ resolved = {}
    /\ clients = <<>>
    /\ set_calls = <<>>
    /\ requests = <<>>
    /\ calls = 0
    /\ http_clients = <<>>
    /\ with_blocks = <<>>
    /\ login_client = <<>>
    /\ login_response = <<>>
    /\ login_request = <<>>
    /\ login_outcome = NoOutcome
    /\ api_requests = <<>>
    /\ grant_case = <<>>
    /\ grant_results = <<>>
    /\ signed_tokens = <<>>
    /\ signed_outcomes = <<>>
    /\ auth_http_calls = <<>>
    /\ lazy_self = <<>>
    /\ lazy_heap = <<>>
    /\ lazy_sent = <<>>
    /\ lazy_supplied = None
    /\ lazy_last = None
    /\ invitation_token = ""
    /\ invitation_response = <<>>
    /\ invitation_outcome = NoOutcome
    /\ flag_key = ""
    /\ flag_default = <<>>
    /\ flag_response = <<>>
    /\ flag_outcome = NoOutcome
    /\ chain = <<>>
    /\ chain_results = <<>>
    /\ pc = "start"

GetRolePermissions ==
    /\ pc = "start"
    /\ resolved' = get_role_permissions(resolve_role)
    /\ pc' = "resolved"
    /\ UNCHANGED <<matcherVars, listVars, ctxVars, roleVars, resolve_role, clientVars, withVars, loginVars, apiVars, grantVars, signedVars, lazyVars, invitationVars, flagVars, chainVars>>

CheckPermission ==
    /\ pc = "resolved"
    /\ \E p \in CheckedPermissions :
        /\ permission' = p
        /\ allowed' = check_permission(SetToSeq(resolved), p)
    /\ pc' = "checked"
    /\ UNCHANGED <<matcherVars, listVars, token, outcome, roleVars, resolveVars, clientVars, withVars, loginVars, apiVars, grantVars, signedVars, lazyVars, invitationVars, flagVars, chainVars>>

NextRoles == GetRolePermissions \/ CheckPermission

SpecRoles == InitRoles /\ [][NextRoles]_vars

----------------------------------------------------------------------------
(* users/client.py, notifications/client.py: the access token of            *)
(* UserClient and NotificationClient (the two classes hold the same code)    *)

\* Total number of client calls in a run.
MaxCalls == 3

ClientNames == {"UserClient", "NotificationClient"}

\* Access tokens: two tokens and the empty string.
AccessTokens == {"", "tok1", "tok2"}

\* _build_headers: the Authorization header only for a token that is
\* neither None nor empty.
build_headers(access_token) ==
    IF access_token # None /\ access_token # ""
    THEN [h \in {"Content-Type", "Authorization"} |->
            IF h = "Authorization" THEN "Bearer " \o access_token ELSE "application/json"]
    ELSE [h \in {"Content-Type"} |-> "application/json"]

\* __init__: _access_token and the headers the httpx.Client is created with.
NewClient(access_token) ==
    [access_token |-> access_token, headers |-> build_headers(access_token)]

\* headers[name] = value
SetHeader(headers, name, value) ==
    [h \in DOMAIN headers \cup {name} |-> IF h = name THEN value ELSE headers[h]]

\* Faulty variant: only _access_token is updated, the headers of the
\* httpx.Client already built are left as they are.
set_access_token_stale_headers(client, tok) ==
    [client EXCEPT !.access_token = tok]

\* set_access_token
set_access_token(client, tok) ==
    [client EXCEPT !.access_token = tok,
                   !.headers = SetHeader(@, "Authorization", "Bearer " \o tok)]

----------------------------------------------------------------------------
(* Specification SpecClient: set_access_token calls and requests on a        *)
(* UserClient and a NotificationClient, in any order                         *)

InitClient ==
    /\ user_permission = <<>>
    /\ required = <<>>
    /\ result = FALSE
    /\ user_permissions = <<>>
    /\ required_list = <<>>
    /\ list_result = FALSE
    /\ token = NoToken
    /\ outcome = NoOutcome
    /\ permission = <<>>
    /\ allowed = FALSE
    /\ asked_role = ""
    /\ role_names = <<>>
    /\ answer = FALSE
    /\ resolve_role = ""
    /\ resolved = {}
    /\ clients \in [ClientNames -> {NewClient(t) : t \in AccessTokens \cup {None}}]
    /\ set_calls = [c \in ClientNames |-> <<>>]
    /\ requests = [c \in ClientNames |-> <<>>]
    /\ calls = 0
    /\ http_clients = <<>>
    /\ with_blocks = <<>>
    /\ login_client = <<>>
    /\ login_response = <<>>
    /\ login_request = <<>>
    /\ login_outcome = NoOutcome
    /\ api_requests = <<>>
    /\ grant_case = <<>>
    /\ grant_results = <<>>
    /\ signed_tokens = <<>>
    /\ signed_outcomes = <<>>
    /\ auth_http_calls = <<>>
    /\ lazy_self = <<>>
    /\ lazy_heap = <<>>
    /\ lazy_sent = <<>>
    /\ lazy_supplied = None
    /\ lazy_last = None
    /\ invitation_token = ""
    /\ invitation_response = <<>>
    /\ invitation_outcome = NoOutcome
    /\ flag_key = ""
    /\ flag_default = <<>>
    /\ flag_response = <<>>
    /\ flag_outcome = NoOutcome
    /\ chain = <<>>
    /\ chain_results = <<>>
    /\ pc = "ready"

SetAccessToken(c, tok) ==
    /\ calls < MaxCalls
    /\ clients' = [clients EXCEPT ![c] = set_access_token(@, tok)]
    /\ set_calls' = [set_calls EXCEPT ![c] = Append(@, tok)]
    /\ calls' = calls + 1
    /\ UNCHANGED <<matcherVars, listVars, ctxVars, roleVars, resolveVars, requests, pc, withVars, loginVars, apiVars, grantVars, signedVars, lazyVars, invitationVars, flagVars, chainVars>>

\* Any request method (list, get, ...): self._http sends the client's headers.
Request(c) ==
    /\ calls < MaxCalls
    /\ requests' = [requests EXCEPT ![c] =
                        Append(@, [authorization |-> Get(clients[c].headers, "Authorization", None),
                                   tokens_set |-> Len(set_calls[c])])]
    /\ calls' = calls + 1
    /\ UNCHANGED <<matcherVars, listVars, ctxVars, roleVars, resolveVars, clients, set_calls, pc, withVars, loginVars, apiVars, grantVars, signedVars, lazyVars, invitationVars, flagVars, chainVars>>

NextClient ==
    \E c \in ClientNames :
        \/ \E tok \in AccessTokens : SetAccessToken(c, tok)
        \/ Request(c)

SpecClient == InitClient /\ [][NextClient]_vars

----------------------------------------------------------------------------
(* auth/client.py, users/client.py, notifications/client.py: close and the  *)
(* context manager protocol (the three classes hold the same code)          *)

\* Statements of a with-block that use the client.
MaxBody == 2

WithClients == {"AuthClient", "UserClient", "NotificationClient"}

\* __init__: the httpx.Client is created open.
NewHttp == [closes |-> 0]

\* close: self._http.close()
close(http) == [http EXCEPT !.closes = @ + 1]

\* __enter__: return self
__enter__(http) == http

\* Faulty variant: the client is closed only when the block ended normally.
exit_keeps_open_on_exception(http, args) ==
    IF args = None THEN close(http) ELSE http

\* __exit__(self, *args): self.close(), whatever the arguments.
__exit__(http, args) == close(http)

\* How a with-block ends: normally (None) or by an exception.
BlockEnds == {None, "Exception"}

----------------------------------------------------------------------------
(* Specification SpecWith: one with-block per client class *)

InitWith ==
    /\ user_permission = <<>>
    /\ required = <<>>
    /\ result = FALSE
    /\ user_permissions = <<>>
    /\ required_list = <<>>
    /\ list_result = FALSE
    /\ token = NoToken
    /\ outcome = NoOutcome
    /\ permission = <<>>
    /\ allowed = FALSE
    /\ asked_role = ""
    /\ role_names = <<>>
    /\ answer = FALSE
    /\ resolve_role = ""
    /\ resolved = {}
    /\ clients = <<>>
    /\ set_calls = <<>>
    /\ requests = <<>>
    /\ calls = 0
    /\ http_clients = [c \in WithClients |-> NewHttp]
    /\ with_blocks = [c \in WithClients |-> [at |-> "before", steps |-> 0, ended |-> None]]
    /\ login_client = <<>>
    /\ login_response = <<>>
    /\ login_request = <<>>
    /\ login_outcome = NoOutcome
    /\ api_requests = <<>>
    /\ grant_case = <<>>
    /\ grant_results = <<>>
    /\ signed_tokens = <<>>
    /\ signed_outcomes = <<>>
    /\ auth_http_calls = <<>>
    /\ lazy_self = <<>>
    /\ lazy_heap = <<>>
    /\ lazy_sent = <<>>
    /\ lazy_supplied = None
    /\ lazy_last = None
    /\ invitation_token = ""
    /\ invitation_response = <<>>
    /\ invitation_outcome = NoOutcome
    /\ flag_key = ""
    /\ flag_default = <<>>
    /\ flag_response = <<>>
    /\ flag_outcome = NoOutcome
    /\ chain = <<>>
    /\ chain_results = <<>>
    /\ pc = "ready"

\* with Client(...) as client:
WithEnter(c) ==
    /\ with_blocks[c].at = "before"
    /\ http_clients' = [http_clients EXCEPT ![c] = __enter__(@)]
    /\ with_blocks' = [with_blocks EXCEPT ![c].at = "inside"]
    /\ UNCHANGED <<matcherVars, listVars, ctxVars, roleVars, resolveVars, clientVars, pc, loginVars, apiVars, grantVars, signedVars, lazyVars, invitationVars, flagVars, chainVars>>

\* A statement of the block.
WithBody(c) ==
    /\ with_blocks[c].at = "inside"
    /\ with_blocks[c].steps < MaxBody
    /\ with_blocks' = [with_blocks EXCEPT ![c].steps = @ + 1]
    /\ UNCHANGED <<matcherVars, listVars, ctxVars, roleVars, resolveVars, clientVars, http_clients, pc, loginVars, apiVars, grantVars, signedVars, lazyVars, invitationVars, flagVars, chainVars>>

\* The block is left, normally or by an exception: the with statement
\* calls __exit__ with the exception's details.
WithLeave(c, exc) ==
    /\ with_blocks[c].at = "inside"
    /\ http_clients' = [http_clients EXCEPT ![c] = __exit__(@, exc)]
    /\ with_blocks' = [with_blocks EXCEPT ![c].at = "left", ![c].ended = exc]
    /\ UNCHANGED <<matcherVars, listVars, ctxVars, roleVars, resolveVars, clientVars, pc, loginVars, apiVars, grantVars, signedVars, lazyVars, invitationVars, flagVars, chainVars>>

NextWith ==
    \E c \in WithClients :
        \/ WithEnter(c)
        \/ WithBody(c)
        \/ \E exc \in BlockEnds : WithLeave(c, exc)

SpecWith == InitWith /\ [][NextWith]_vars

----------------------------------------------------------------------------
(* auth/client.py: AuthClient.login *)

\* Exceptions of the auth package, with the arguments they are raised with.
UnauthorizedError(message) == [exc |-> "UnauthorizedError", message |-> message]
AuthError(error, description) == [exc |-> "AuthError", error |-> error, description |-> description]

\* TokenResponse(**body)
TokenResponse(body) == [type |-> "TokenResponse", fields |-> body]

\* The form data of the password grant: client_id and client_secret are
\* added only when the client holds a non-empty one.
token_request(self, username, password, scope) ==
    LET keys == {"grant_type", "username", "password", "scope"}
                    \cup (IF self.client_id # None /\ self.client_id # "" THEN {"client_id"} ELSE {})
                    \cup (IF self.client_secret # None /\ self.client_secret # "" THEN {"client_secret"} ELSE {})
    IN [k \in keys |->
            CASE k = "grant_type" -> "password"
              [] k = "username" -> username
              [] k = "password" -> password
              [] k = "scope" -> scope
              [] k = "client_id" -> self.client_id
              [] k = "client_secret" -> self.client_secret]

\* Faulty variant: the generic status check comes first, so a 401 is
\* reported as an AuthError built from the body.
login_generic_check_first(response) ==
    IF response.status_code # 200
    THEN AuthError(Get(response.json, "error", "unknown_error"),
                   Get(response.json, "error_description", "Authentication failed"))
    ELSE IF response.status_code = 401
    THEN UnauthorizedError("Invalid credentials")
    ELSE Return(TokenResponse(response.json))

\* login, from the response to POST /token on.
login(response) ==
    IF response.status_code = 401
    THEN UnauthorizedError("Invalid credentials")
    ELSE IF response.status_code # 200
    THEN AuthError(Get(response.json, "error", "unknown_error"),
                   Get(response.json, "error_description", "Authentication failed"))
    ELSE Return(TokenResponse(response.json))

----------------------------------------------------------------------------
(* Specification SpecLogin: one login call and the server's answer *)

\* Bodies of error answers: "error" and "error_description" may each be
\* missing.
ErrorBodies ==
    UNION {[keys -> {"invalid_grant", "Bad credentials"}] :
                keys \in SUBSET {"error", "error_description"}}

TokenBodies ==
    {[k \in {"access_token", "refresh_token", "token_type", "expires_in"} |->
        CASE k = "access_token" -> a
          [] k = "refresh_token" -> "test-refresh-token"
          [] k = "token_type" -> "Bearer"
          [] k = "expires_in" -> "3600"] : a \in {"test-access-token", "tok2"}}

ErrorStatusCodes == {400, 401, 403, 500}

Responses ==
    {[status_code |-> 200, json |-> b] : b \in TokenBodies}
        \cup {[status_code |-> st, json |-> b] : st \in ErrorStatusCodes, b \in ErrorBodies}

LoginClients ==
    {[client_id |-> i, client_secret |-> k] : i \in {None, "test-client"}, k \in {None, "", "secret"}}

InitLogin ==
    /\ user_permission = <<>>
    /\ required = <<>>
    /\ result = FALSE
    /\ user_permissions = <<>>
    /\ required_list = <<>>
    /\ list_result = FALSE
    /\ token = NoToken
    /\ outcome = NoOutcome
    /\ permission = <<>>
    /\ allowed = FALSE
    /\ asked_role = ""
    /\ role_names = <<>>
    /\ answer = FALSE
    /\ resolve_role = ""
    /\ resolved = {}
    /\ clients = <<>>
    /\ set_calls = <<>>
    /\ requests = <<>>
    /\ calls = 0
    /\ http_clients = <<>>
    /\ with_blocks = <<>>
    /\ login_client \in LoginClients
    /\ login_response \in Responses
    /\ login_request = <<>>
    /\ login_outcome = NoOutcome
    /\ api_requests = <<>>
    /\ grant_case = <<>>
    /\ grant_results = <<>>
    /\ signed_tokens = <<>>
    /\ signed_outcomes = <<>>
    /\ auth_http_calls = <<>>
    /\ lazy_self = <<>>
    /\ lazy_heap = <<>>
    /\ lazy_sent = <<>>
    /\ lazy_supplied = None
    /\ lazy_last = None
    /\ invitation_token = ""
    /\ invitation_response = <<>>
    /\ invitation_outcome = NoOutcome
    /\ flag_key = ""
    /\ flag_default = <<>>
    /\ flag_response = <<>>
    /\ flag_outcome = NoOutcome
    /\ chain = <<>>
    /\ chain_results = <<>>
    /\ pc = "ready"

Login(username, password, scope) ==
    /\ pc = "ready"
    /\ login_request' = token_request(login_client, username, password, scope)
    /\ login_outcome' = login(login_response)
    /\ pc' = "done"
    /\ UNCHANGED <<matcherVars, listVars, ctxVars, roleVars, resolveVars, clientVars, withVars, login_client, login_response, apiVars, grantVars, signedVars, lazyVars, invitationVars, flagVars, chainVars>>

NextLogin == Login("user@example.com", "password", "openid profile email")

SpecLogin == InitLogin /\ [][NextLogin]_vars

----------------------------------------------------------------------------
(* examples/fastapi-integration.py: requests served with the module-level   *)
(* user_client and notification_client                                       *)

ApiRequests == {1, 2}

\* Bearer tokens a request may present: two that parse and one that does not.
BearerTokens == {"tokA", "tokB", "garbage"}

\* What jwt.decode finds in a presented token.
Presented(credentials) ==
    IF credentials = "garbage"
    THEN [kind |-> "malformed", why |-> "not_enough_segments"]
    ELSE [kind |-> "jwt", claims |-> [sub |-> credentials], expired |-> FALSE]

\* Routes and the module-level client each one calls.
Routes == {"/api/me", "/api/notifications/unread-count"}
RouteClient(route) == IF route = "/api/me" THEN "UserClient" ELSE "NotificationClient"

----------------------------------------------------------------------------
(* Specification SpecApi: two requests in flight. The dependency             *)
(* get_current_user and the route function are two coroutines the framework  *)
(* awaits one after the other; steps of the two requests interleave.         *)

InitApi ==
    /\ user_permission = <<>>
    /\ required = <<>>
    /\ result = FALSE
    /\ user_permissions = <<>>
    /\ required_list = <<>>
    /\ list_result = FALSE
    /\ token = NoToken
    /\ outcome = NoOutcome
    /\ permission = <<>>
    /\ allowed = FALSE
    /\ asked_role = ""
    /\ role_names = <<>>
    /\ answer = FALSE
    /\ resolve_role = ""
    /\ resolved = {}
    /\ set_calls = <<>>
    /\ requests = <<>>
    /\ calls = 0
    /\ http_clients = <<>>
    /\ with_blocks = <<>>
    /\ login_client = <<>>
    /\ login_response = <<>>
    /\ login_request = <<>>
    /\ login_outcome = NoOutcome
    /\ clients = [c \in ClientNames |-> NewClient(None)]
    /\ api_requests \in [ApiRequests -> {[credentials |-> t, route |-> ro, at |-> "received", sent |-> None] : t \in BearerTokens, ro \in Routes}]
    /\ grant_case = <<>>
    /\ grant_results = <<>>
    /\ signed_tokens = <<>>
    /\ signed_outcomes = <<>>
    /\ auth_http_calls = <<>>
    /\ lazy_self = <<>>
    /\ lazy_heap = <<>>
    /\ lazy_sent = <<>>
    /\ lazy_supplied = None
    /\ lazy_last = None
    /\ invitation_token = ""
    /\ invitation_response = <<>>
    /\ invitation_outcome = NoOutcome
    /\ flag_key = ""
    /\ flag_default = <<>>
    /\ flag_response = <<>>
    /\ flag_outcome = NoOutcome
    /\ chain = <<>>
    /\ chain_results = <<>>
    /\ pc = "ready"

\* get_current_user: the context is extracted, then the token is set on
\* both module-level clients; a token that does not decode is answered 401.
GetCurrentUser(r) ==
    /\ api_requests[r].at = "received"
    /\ LET tok == api_requests[r].credentials
           context == get_user_context(Presented(tok))
       IN  IF context.exc = "none"
           THEN /\ clients' = [c \in ClientNames |-> set_access_token(clients[c], tok)]
                /\ api_requests' = [api_requests EXCEPT ![r].at = "authenticated"]
           ELSE /\ clients' = clients
                /\ api_requests' = [api_requests EXCEPT ![r].at = "unauthorized"]
    /\ UNCHANGED <<matcherVars, listVars, ctxVars, roleVars, resolveVars, set_calls, requests, calls, withVars, loginVars, pc, grantVars, signedVars, lazyVars, invitationVars, flagVars, chainVars>>

\* The SDK call of a route function, sent with the headers the shared
\* client holds at that moment.
RouteCall(r, route) ==
    /\ api_requests[r].at = "authenticated"
    /\ api_requests[r].route = route
    /\ api_requests' = [api_requests EXCEPT
            ![r].at = "called",
            ![r].sent = Get(clients[RouteClient(route)].headers, "Authorization", None)]
    /\ UNCHANGED <<matcherVars, listVars, ctxVars, roleVars, resolveVars, set_calls, requests, calls, withVars, loginVars, clients, pc, grantVars, signedVars, lazyVars, invitationVars, flagVars, chainVars>>

\* get_my_profile: user_client.get_my_profile()
GetMyProfile(r) == RouteCall(r, "/api/me")

\* get_unread_count: notification_client.get_unread_count()
GetUnreadCount(r) == RouteCall(r, "/api/notifications/unread-count")

NextApi ==
    \E r \in ApiRequests :
        \/ GetCurrentUser(r)
        \/ GetMyProfile(r)
        \/ GetUnreadCount(r)

SpecApi == InitApi /\ [][NextApi]_vars

----------------------------------------------------------------------------
(* Specification SpecGrants: has_any_permission and has_all_permissions      *)
(* called on a pair of lists and again after the granted list was extended,  *)
(* or after either list was reordered or had elements repeated               *)

GrantPool == {Perm(USERS, <<"*">>), Perm(USERS, READ), Perm(REPORTS, READ)}

Elements(l) == {l[i] : i \in DOMAIN l}

\* The lists holding the same elements as l, in any order and any number
\* of times.
SameElements(l) == {m \in ListsUpTo(GrantPool, MaxList + 1) : Elements(m) = Elements(l)}

\* The results of both functions on the first pair and on the second.
BothCalls(kind, perms, reqs, perms2, reqs2) ==
    [kind |-> kind, granted |-> perms2, required |-> reqs2,
     any_before |-> has_any_permission(perms, reqs),
     any_after |-> has_any_permission(perms2, reqs2),
     all_before |-> has_all_permissions(perms, reqs),
     all_after |-> has_all_permissions(perms2, reqs2)]

InitGrants ==
    /\ user_permission = <<>>
    /\ required = <<>>
    /\ result = FALSE
    /\ user_permissions = <<>>
    /\ required_list = <<>>
    /\ list_result = FALSE
    /\ token = NoToken
    /\ outcome = NoOutcome
    /\ permission = <<>>
    /\ allowed = FALSE
    /\ asked_role = ""
    /\ role_names = <<>>
    /\ answer = FALSE
    /\ resolve_role = ""
    /\ resolved = {}
    /\ clients = <<>>
    /\ set_calls = <<>>
    /\ requests = <<>>
    /\ calls = 0
    /\ http_clients = <<>>
    /\ with_blocks = <<>>
    /\ login_client = <<>>
    /\ login_response = <<>>
    /\ login_request = <<>>
    /\ login_outcome = NoOutcome
    /\ api_requests = <<>>
    /\ grant_case \in [granted : ListsUpTo(GrantPool, MaxList), required : ListsUpTo(GrantPool, MaxList)]
    /\ grant_results = <<>>
    /\ signed_tokens = <<>>
    /\ signed_outcomes = <<>>
    /\ auth_http_calls = <<>>
    /\ lazy_self = <<>>
    /\ lazy_heap = <<>>
    /\ lazy_sent = <<>>
    /\ lazy_supplied = None
    /\ lazy_last = None
    /\ invitation_token = ""
    /\ invitation_response = <<>>
    /\ invitation_outcome = NoOutcome
    /\ flag_key = ""
    /\ flag_default = <<>>
    /\ flag_response = <<>>
    /\ flag_outcome = NoOutcome
    /\ chain = <<>>
    /\ chain_results = <<>>
    /\ pc = "call"

\* The granted list is extended by extra.
ExtendGranted(extra) ==
    /\ pc = "call"
    /\ grant_results' = BothCalls("extended", grant_case.granted, grant_case.required,
                                  grant_case.granted \o extra, grant_case.required)
    /\ pc' = "compared"
    /\ UNCHANGED <<matcherVars, listVars, ctxVars, roleVars, resolveVars, clientVars, withVars, loginVars, apiVars, grant_case, signedVars, lazyVars, invitationVars, flagVars, chainVars>>

\* The granted list is reordered or has elements repeated.
RearrangeGranted(perms2) ==
    /\ pc = "call"
    /\ grant_results' = BothCalls("rearranged", grant_case.granted, grant_case.required,
                                  perms2, grant_case.required)
    /\ pc' = "compared"
    /\ UNCHANGED <<matcherVars, listVars, ctxVars, roleVars, resolveVars, clientVars, withVars, loginVars, apiVars, grant_case, signedVars, lazyVars, invitationVars, flagVars, chainVars>>

\* The required list is reordered or has elements repeated.
RearrangeRequired(reqs2) ==
    /\ pc = "call"
    /\ grant_results' = BothCalls("rearranged", grant_case.granted, grant_case.required,
                                  grant_case.granted, reqs2)
    /\ pc' = "compared"
    /\ UNCHANGED <<matcherVars, listVars, ctxVars, roleVars, resolveVars, clientVars, withVars, loginVars, apiVars, grant_case, signedVars, lazyVars, invitationVars, flagVars, chainVars>>

NextGrants ==
    \/ \E extra \in ListsUpTo(GrantPool, MaxList) : ExtendGranted(extra)
    \/ \E perms2 \in SameElements(grant_case.granted) : RearrangeGranted(perms2)
    \/ \E reqs2 \in SameElements(grant_case.required) : RearrangeRequired(reqs2)

SpecGrants == InitGrants /\ [][NextGrants]_vars

----------------------------------------------------------------------------
(* Specification SpecSigned: get_user_context on two tokens that carry a     *)
(* signature, with introspect_token as the call that does ask the server     *)

\* The key a token was signed with.
Signatures == {"key1", "key2", "forged"}

SignedClaimSets ==
    {ClaimsOf([sub |-> u, roles |-> r, permissions |-> p, tenant_id |-> t, scope |-> sc]) :
        u \in Optional({"user-123"}), r \in Optional({<<"user", "admin">>}),
        p \in Optional({<<Perm(USERS, READ), Perm(USERS, WRITE)>>}),
        t \in Optional({"tenant-456"}), sc \in Optional({<<"r", " ", "w">>})}

SignedTokens ==
    {[kind |-> "jwt", claims |-> c, expired |-> FALSE, signature |-> g] :
            c \in SignedClaimSets, g \in Signatures}
    \cup {[kind |-> "malformed", why |-> "not_enough_segments", signature |-> "forged"]}

InitSigned ==
    /\ user_permission = <<>>
    /\ required = <<>>
    /\ result = FALSE
    /\ user_permissions = <<>>
    /\ required_list = <<>>
    /\ list_result = FALSE
    /\ token = NoToken
    /\ outcome = NoOutcome
    /\ permission = <<>>
    /\ allowed = FALSE
    /\ asked_role = ""
    /\ role_names = <<>>
    /\ answer = FALSE
    /\ resolve_role = ""
    /\ resolved = {}
    /\ clients = <<>>
    /\ set_calls = <<>>
    /\ requests = <<>>
    /\ calls = 0
    /\ http_clients = <<>>
    /\ with_blocks = <<>>
    /\ login_client = <<>>
    /\ login_response = <<>>
    /\ login_request = <<>>
    /\ login_outcome = NoOutcome
    /\ api_requests = <<>>
    /\ grant_case = <<>>
    /\ grant_results = <<>>
    /\ signed_tokens \in [{1, 2} -> SignedTokens]
    /\ signed_outcomes = <<>>
    /\ auth_http_calls = <<>>
    /\ lazy_self = <<>>
    /\ lazy_heap = <<>>
    /\ lazy_sent = <<>>
    /\ lazy_supplied = None
    /\ lazy_last = None
    /\ invitation_token = ""
    /\ invitation_response = <<>>
    /\ invitation_outcome = NoOutcome
    /\ flag_key = ""
    /\ flag_default = <<>>
    /\ flag_response = <<>>
    /\ flag_outcome = NoOutcome
    /\ chain = <<>>
    /\ chain_results = <<>>
    /\ pc = "ready"

\* introspect_token: self._http.post("/token/introspect", ...)
IntrospectToken(i) ==
    /\ pc = "ready"
    /\ auth_http_calls = <<>>
    /\ auth_http_calls' = Append(auth_http_calls, [method |-> "POST", url |-> "/token/introspect", token |-> i])
    /\ UNCHANGED <<matcherVars, listVars, ctxVars, roleVars, resolveVars, clientVars, withVars, loginVars, apiVars, grantVars, signed_tokens, signed_outcomes, pc, lazyVars, invitationVars, flagVars, chainVars>>

\* get_user_context on each of the two tokens; sent_before is the number of
\* requests the client had sent when the calls began.
GetUserContextOfBoth ==
    /\ pc = "ready"
    /\ signed_outcomes' = [first |-> get_user_context(signed_tokens[1]),
                           second |-> get_user_context(signed_tokens[2]),
                           sent_before |-> Len(auth_http_calls)]
    /\ pc' = "decoded"
    /\ UNCHANGED <<matcherVars, listVars, ctxVars, roleVars, resolveVars, clientVars, withVars, loginVars, apiVars, grantVars, signed_tokens, auth_http_calls, lazyVars, invitationVars, flagVars, chainVars>>

NextSigned ==
    \/ \E i \in {1, 2} : IntrospectToken(i)
    \/ GetUserContextOfBoth

SpecSigned == InitSigned /\ [][NextSigned]_vars

----------------------------------------------------------------------------
(* permissions/client.py, teams/client.py, invitations/client.py: the lazily *)
(* created HTTP client of RoleClient, TeamClient and InvitationClient (the   *)
(* three classes hold the same code). A client object is named by its        *)
(* position in the heap of objects created.                                  *)

\* Calls made on one client in a run.
MaxOps == 5

LazyClasses == {"RoleClient", "TeamClient", "InvitationClient"}

\* self._client = None: no client object (objects are named from 1 on).
NoClient == 0

\* A token is supplied when it is neither None nor empty.
Truthy(tok) == tok # None /\ tok # ""

\* _get_client: the live client, created with the headers of the current
\* token when there is none.
_get_client(self, heap) ==
    IF self.client = NoClient
    THEN LET headers == build_headers(self.access_token)
             created == [headers |-> headers, closes |-> 0]
         IN  [self |-> [self EXCEPT !.client = Len(heap) + 1], heap |-> Append(heap, created)]
    ELSE [self |-> self, heap |-> heap]

\* Faulty variant: the token is stored but the headers of a client that
\* already exists are left as they are.
lazy_set_access_token_stored_only(self, heap, tok) ==
    [self |-> [self EXCEPT !.access_token = tok], heap |-> heap]

\* set_access_token
lazy_set_access_token(self, heap, tok) ==
    [self |-> [self EXCEPT !.access_token = tok],
     heap |-> IF self.client # NoClient
              THEN [heap EXCEPT ![self.client].headers = SetHeader(@, "Authorization", "Bearer " \o tok)]
              ELSE heap]

\* close
lazy_close(self, heap) ==
    IF self.client # NoClient
    THEN [self |-> [self EXCEPT !.client = NoClient],
          heap |-> [heap EXCEPT ![self.client].closes = @ + 1]]
    ELSE [self |-> self, heap |-> heap]

----------------------------------------------------------------------------
(* Specification SpecLazy: requests, set_access_token and close calls on     *)
(* one lazily connected client, in any order                                 *)

LazyTokens == {"tok1", "tok2"}

InitLazy ==
    /\ user_permission = <<>>
    /\ required = <<>>
    /\ result = FALSE
    /\ user_permissions = <<>>
    /\ required_list = <<>>
    /\ list_result = FALSE
    /\ token = NoToken
    /\ outcome = NoOutcome
    /\ permission = <<>>
    /\ allowed = FALSE
    /\ asked_role = ""
    /\ role_names = <<>>
    /\ answer = FALSE
    /\ resolve_role = ""
    /\ resolved = {}
    /\ clients = <<>>
    /\ set_calls = <<>>
    /\ requests = <<>>
    /\ calls = 0
    /\ http_clients = <<>>
    /\ with_blocks = <<>>
    /\ login_client = <<>>
    /\ login_response = <<>>
    /\ login_request = <<>>
    /\ login_outcome = NoOutcome
    /\ api_requests = <<>>
    /\ grant_case = <<>>
    /\ grant_results = <<>>
    /\ signed_tokens = <<>>
    /\ signed_outcomes = <<>>
    /\ auth_http_calls = <<>>
    /\ lazy_self \in [cls : LazyClasses, access_token : LazyTokens \cup {None, ""}, client : {NoClient}, ops : {0}]
    /\ lazy_heap = <<>>
    /\ lazy_sent = <<>>
    /\ lazy_supplied = IF Truthy(lazy_self.access_token) THEN lazy_self.access_token ELSE None
    /\ lazy_last = "__init__"
    /\ invitation_token = ""
    /\ invitation_response = <<>>
    /\ invitation_outcome = NoOutcome
    /\ flag_key = ""
    /\ flag_default = <<>>
    /\ flag_response = <<>>
    /\ flag_outcome = NoOutcome
    /\ chain = <<>>
    /\ chain_results = <<>>
    /\ pc = "ready"

\* Any request method: client = self._get_client(), then client.get(...)
\* sends the headers of that client.
LazyRequest ==
    /\ lazy_self.ops < MaxOps
    /\ LET got == _get_client(lazy_self, lazy_heap)
           via == got.self.client
       IN  /\ lazy_self' = [got.self EXCEPT !.ops = @ + 1]
           /\ lazy_heap' = got.heap
           /\ lazy_sent' = Append(lazy_sent,
                [via |-> via,
                 closes |-> got.heap[via].closes,
                 created |-> via > Len(lazy_heap),
                 after |-> lazy_last,
                 supplied |-> lazy_supplied,
                 authorization |-> Get(got.heap[via].headers, "Authorization", None)])
    /\ lazy_last' = "request"
    /\ UNCHANGED <<matcherVars, listVars, ctxVars, roleVars, resolveVars, clientVars, withVars, loginVars, apiVars, grantVars, signedVars, lazy_supplied, pc, invitationVars, flagVars, chainVars>>

LazySetAccessToken(tok) ==
    /\ lazy_self.ops < MaxOps
    /\ LET done == lazy_set_access_token(lazy_self, lazy_heap, tok)
       IN  /\ lazy_self' = [done.self EXCEPT !.ops = @ + 1]
           /\ lazy_heap' = done.heap
    /\ lazy_supplied' = tok
    /\ lazy_last' = "set_access_token"
    /\ UNCHANGED <<matcherVars, listVars, ctxVars, roleVars, resolveVars, clientVars, withVars, loginVars, apiVars, grantVars, signedVars, lazy_sent, pc, invitationVars, flagVars, chainVars>>

LazyClose ==
    /\ lazy_self.ops < MaxOps
    /\ LET done == lazy_close(lazy_self, lazy_heap)
       IN  /\ lazy_self' = [done.self EXCEPT !.ops = @ + 1]
           /\ lazy_heap' = done.heap
    /\ lazy_last' = "close"
    /\ UNCHANGED <<matcherVars, listVars, ctxVars, roleVars, resolveVars, clientVars, withVars, loginVars, apiVars, grantVars, signedVars, lazy_sent, lazy_supplied, pc, invitationVars, flagVars, chainVars>>

NextLazy ==
    \/ LazyRequest
    \/ \E tok \in LazyTokens : LazySetAccessToken(tok)
    \/ LazyClose

SpecLazy == InitLazy /\ [][NextLazy]_vars

----------------------------------------------------------------------------
(* invitations/client.py: InvitationClient.validate_token and accept.        *)
(* The error text of a 410 body is a sequence of characters, so that         *)
(* lower() and the substring test are computed.                              *)

UPPERCASE == <<"A", "B", "C", "D", "E", "F", "G", "H", "I", "J", "K", "L", "M", "N", "O", "P", "Q", "R", "S", "T", "U", "V", "W", "X", "Y", "Z">>
LOWERCASE == <<"a", "b", "c", "d", "e", "f", "g", "h", "i", "j", "k", "l", "m", "n", "o", "p", "q", "r", "s", "t", "u", "v", "w", "x", "y", "z">>

\* str.lower()
lower(text) ==
    [i \in DOMAIN text |->
        IF \E k \in DOMAIN UPPERCASE : UPPERCASE[k] = text[i]
        THEN LOWERCASE[CHOOSE k \in DOMAIN UPPERCASE : UPPERCASE[k] = text[i]]
        ELSE text[i]]

\* part in text
Contains(text, part) ==
    \E i \in 0..(Len(text) - Len(part)) : SubSeq(text, i + 1, i + Len(part)) = part

EXPIRED == <<"e", "x", "p", "i", "r", "e", "d">>

\* Exceptions of the invitations package, raised with the token.
TokenNotFoundError(tok) == [exc |-> "TokenNotFoundError", token |-> tok]
TokenExpiredError(tok) == [exc |-> "TokenExpiredError", token |-> tok]
TokenRevokedError(tok) == [exc |-> "TokenRevokedError", token |-> tok]

\* response.raise_for_status(), then the result model built from the body.
ResultOrStatusError(response, model) ==
    IF response.status_code >= 400
    THEN [exc |-> "HTTPStatusError", status_code |-> response.status_code]
    ELSE Return([type |-> model, fields |-> response.json])

\* Faulty variant: the error text is searched as it came, without lower().
validate_token_case_sensitive(tok, response) ==
    IF response.status_code = 404 THEN TokenNotFoundError(tok)
    ELSE IF response.status_code = 410
    THEN LET error == Get(response.json, "error", <<>>)
         IN  IF Contains(error, EXPIRED) THEN TokenExpiredError(tok)
             ELSE TokenRevokedError(tok)
    ELSE ResultOrStatusError(response, "ValidatedInvitation")

\* validate_token, from the response on.
validate_token(tok, response) ==
    IF response.status_code = 404 THEN TokenNotFoundError(tok)
    ELSE IF response.status_code = 410
    THEN LET error == Get(response.json, "error", <<>>)
         IN  IF Contains(lower(error), EXPIRED) THEN TokenExpiredError(tok)
             ELSE TokenRevokedError(tok)
    ELSE ResultOrStatusError(response, "ValidatedInvitation")

\* accept, from the response on.
accept(tok, response) ==
    IF response.status_code = 404 THEN TokenNotFoundError(tok)
    ELSE IF response.status_code = 410
    THEN LET error == Get(response.json, "error", <<>>)
         IN  IF Contains(lower(error), EXPIRED) THEN TokenExpiredError(tok)
             ELSE TokenRevokedError(tok)
    ELSE ResultOrStatusError(response, "AcceptInvitationResponse")

----------------------------------------------------------------------------
(* Specification SpecInvitation: one validate_token or accept call and the   *)
(* server's answer                                                           *)

ErrorTexts ==
    {<<>>, <<"e", "x", "p", "i", "r", "e", "d">>,
     <<"T", "o", "k", "e", "n", " ", "E", "x", "p", "i", "r", "e", "d">>,
     <<"T", "O", "K", "E", "N", " ", "E", "X", "P", "I", "R", "E", "D">>,
     <<"e", "X", "p", "I", "r", "E", "d", "!">>,
     <<"r", "e", "v", "o", "k", "e", "d">>,
     <<"e", "x", "p", "i", "r", "e", " ", "d">>,
     <<"T", "o", "k", "e", "n", " ", "h", "a", "s", " ", "b", "e", "e", "n", " ", "r", "e", "v", "o", "k", "e", "d">>}

InvitationBodies ==
    {[k \in {} |-> <<>>]} \cup {[k \in {"error"} |-> e] : e \in ErrorTexts}

InvitationStatusCodes == {200, 400, 404, 410, 500}

InvitationTokens == {"abc123", "zzz"}

InitInvitation ==
    /\ user_permission = <<>>
    /\ required = <<>>
    /\ result = FALSE
    /\ user_permissions = <<>>
    /\ required_list = <<>>
    /\ list_result = FALSE
    /\ token = NoToken
    /\ outcome = NoOutcome
    /\ permission = <<>>
    /\ allowed = FALSE
    /\ asked_role = ""
    /\ role_names = <<>>
    /\ answer = FALSE
    /\ resolve_role = ""
    /\ resolved = {}
    /\ clients = <<>>
    /\ set_calls = <<>>
    /\ requests = <<>>
    /\ calls = 0
    /\ http_clients = <<>>
    /\ with_blocks = <<>>
    /\ login_client = <<>>
    /\ login_response = <<>>
    /\ login_request = <<>>
    /\ login_outcome = NoOutcome
    /\ api_requests = <<>>
    /\ grant_case = <<>>
    /\ grant_results = <<>>
    /\ signed_tokens = <<>>
    /\ signed_outcomes = <<>>
    /\ auth_http_calls = <<>>
    /\ lazy_self = <<>>
    /\ lazy_heap = <<>>
    /\ lazy_sent = <<>>
    /\ lazy_supplied = None
    /\ lazy_last = None
    /\ invitation_token \in InvitationTokens
    /\ invitation_response \in [status_code : InvitationStatusCodes, json : InvitationBodies]
    /\ invitation_outcome = NoOutcome
    /\ flag_key = ""
    /\ flag_default = <<>>
    /\ flag_response = <<>>
    /\ flag_outcome = NoOutcome
    /\ chain = <<>>
    /\ chain_results = <<>>
    /\ pc = "ready"

ValidateToken ==
    /\ pc = "ready"
    /\ invitation_outcome' = validate_token(invitation_token, invitation_response)
    /\ pc' = "validated"
    /\ UNCHANGED <<matcherVars, listVars, ctxVars, roleVars, resolveVars, clientVars, withVars, loginVars, apiVars, grantVars, signedVars, lazyVars, invitation_token, invitation_response, flagVars, chainVars>>

Accept ==
    /\ pc = "ready"
    /\ invitation_outcome' = accept(invitation_token, invitation_response)
    /\ pc' = "accepted"
    /\ UNCHANGED <<matcherVars, listVars, ctxVars, roleVars, resolveVars, clientVars, withVars, loginVars, apiVars, grantVars, signedVars, lazyVars, invitation_token, invitation_response, flagVars, chainVars>>

NextInvitation == ValidateToken \/ Accept

SpecInvitation == InitInvitation /\ [][NextInvitation]_vars

----------------------------------------------------------------------------
(* features/client.py: FeatureFlagClient.evaluate, is_enabled, get_value.    *)
(* A Python value is its type and its value, so that isinstance is computed. *)

PyBool(b) == [type |-> "bool", value |-> IF b THEN "True" ELSE "False"]
PyInt(n) == [type |-> "int", value |-> n]
PyStr(text) == [type |-> "str", value |-> text]
PyNone == [type |-> "NoneType", value |-> "None"]

isinstance(v, type) == v.type = type

\* FeatureFlagEvaluation(key=..., enabled=..., value=..., reason=...)
FeatureFlagEvaluation(key, enabled, value, reason) ==
    [key |-> key, enabled |-> enabled, value |-> value, reason |-> reason, rule_id |-> PyNone]

\* Faulty variant: an unknown flag is always reported as disabled.
evaluate_unknown_is_disabled(key, default, response) ==
    IF response.status_code = 404
    THEN Return(FeatureFlagEvaluation(key, PyBool(FALSE), default, "flag_not_found"))
    ELSE IF response.status_code >= 400
    THEN [exc |-> "HTTPStatusError", status_code |-> response.status_code]
    ELSE Return(response.json)

\* evaluate, from the response on.
evaluate(key, default, response) ==
    IF response.status_code = 404
    THEN Return(FeatureFlagEvaluation(key,
                    IF isinstance(default, "bool") THEN default ELSE PyBool(FALSE),
                    default, "flag_not_found"))
    ELSE IF response.status_code >= 400                       \* raise_for_status()
    THEN [exc |-> "HTTPStatusError", status_code |-> response.status_code]
    ELSE Return(response.json)                                \* FeatureFlagEvaluation(**response.json())

\* is_enabled: the enabled field of the evaluation; an exception of
\* evaluate passes through.
is_enabled(key, default, response) ==
    LET evaluated == evaluate(key, default, response)
    IN  IF evaluated.exc = "none" THEN Return(evaluated.ret.enabled) ELSE evaluated

\* get_value: the value field of the evaluation.
get_value(key, default, response) ==
    LET evaluated == evaluate(key, default, response)
    IN  IF evaluated.exc = "none" THEN Return(evaluated.ret.value) ELSE evaluated

----------------------------------------------------------------------------
(* Specification SpecFlags: one evaluate, is_enabled or get_value call and   *)
(* the server's answer                                                       *)

FlagKeys == {"new-dashboard", "beta"}

FlagDefaults ==
    {PyBool(TRUE), PyBool(FALSE), PyNone, PyInt("0"), PyInt("1"), PyStr(""), PyStr("blue")}

\* Answers: the flag is unknown, the flag was evaluated, the server failed.
FlagResponses ==
    {[status_code |-> 404, json |-> [detail |-> "Not found"]],
     [status_code |-> 500, json |-> [detail |-> "Server error"]]}
    \cup {[status_code |-> 200, json |-> FeatureFlagEvaluation(k, PyBool(e), v, "rule_match")] :
                k \in FlagKeys, e \in BOOLEAN, v \in {PyBool(TRUE), PyStr("green")}}

InitFlags ==
    /\ user_permission = <<>>
    /\ required = <<>>
    /\ result = FALSE
    /\ user_permissions = <<>>
    /\ required_list = <<>>
    /\ list_result = FALSE
    /\ token = NoToken
    /\ outcome = NoOutcome
    /\ permission = <<>>
    /\ allowed = FALSE
    /\ asked_role = ""
    /\ role_names = <<>>
    /\ answer = FALSE
    /\ resolve_role = ""
    /\ resolved = {}
    /\ clients = <<>>
    /\ set_calls = <<>>
    /\ requests = <<>>
    /\ calls = 0
    /\ http_clients = <<>>
    /\ with_blocks = <<>>
    /\ login_client = <<>>
    /\ login_response = <<>>
    /\ login_request = <<>>
    /\ login_outcome = NoOutcome
    /\ api_requests = <<>>
    /\ grant_case = <<>>
    /\ grant_results = <<>>
    /\ signed_tokens = <<>>
    /\ signed_outcomes = <<>>
    /\ auth_http_calls = <<>>
    /\ lazy_self = <<>>
    /\ lazy_heap = <<>>
    /\ lazy_sent = <<>>
    /\ lazy_supplied = None
    /\ lazy_last = None
    /\ invitation_token = ""
    /\ invitation_response = <<>>
    /\ invitation_outcome = NoOutcome
    /\ flag_key \in FlagKeys
    /\ flag_default \in FlagDefaults
    /\ flag_response \in FlagResponses
    /\ flag_outcome = NoOutcome
    /\ chain = <<>>
    /\ chain_results = <<>>
    /\ pc = "ready"

Evaluate ==
    /\ pc = "ready"
    /\ flag_outcome' = evaluate(flag_key, flag_default, flag_response)
    /\ pc' = "evaluate"
    /\ UNCHANGED <<matcherVars, listVars, ctxVars, roleVars, resolveVars, clientVars, withVars, loginVars, apiVars, grantVars, signedVars, lazyVars, invitationVars, flag_key, flag_default, flag_response, chainVars>>

\* is_enabled(key, context, default: bool)
IsEnabled ==
    /\ pc = "ready"
    /\ isinstance(flag_default, "bool")
    /\ flag_outcome' = is_enabled(flag_key, flag_default, flag_response)
    /\ pc' = "is_enabled"
    /\ UNCHANGED <<matcherVars, listVars, ctxVars, roleVars, resolveVars, clientVars, withVars, loginVars, apiVars, grantVars, signedVars, lazyVars, invitationVars, flag_key, flag_default, flag_response, chainVars>>

GetValue ==
    /\ pc = "ready"
    /\ flag_outcome' = get_value(flag_key, flag_default, flag_response)
    /\ pc' = "get_value"
    /\ UNCHANGED <<matcherVars, listVars, ctxVars, roleVars, resolveVars, clientVars, withVars, loginVars, apiVars, grantVars, signedVars, lazyVars, invitationVars, flag_key, flag_default, flag_response, chainVars>>

NextFlags == Evaluate \/ IsEnabled \/ GetValue

SpecFlags == InitFlags /\ [][NextFlags]_vars

----------------------------------------------------------------------------
(* Specification SpecChain: matches_permission on each pair of three         *)
(* permission strings                                                        *)

\* Segments: empty, two names, the wildcard and a doubled wildcard.
Segments == {<<>>, <<"u">>, <<"r">>, <<"*">>, <<"*", "*">>}

\* The strings resource:action over the segments, and two strings of
\* another shape.
ChainStrings ==
    {Perm(res, act) : res \in Segments, act \in Segments}
        \cup {<<"*">>, <<"u", ":", "r", ":", "r">>}

InitChain ==
    /\ user_permission = <<>>
    /\ required = <<>>
    /\ result = FALSE
    /\ user_permissions = <<>>
    /\ required_list = <<>>
    /\ list_result = FALSE
    /\ token = NoToken
    /\ outcome = NoOutcome
    /\ permission = <<>>
    /\ allowed = FALSE
    /\ asked_role = ""
    /\ role_names = <<>>
    /\ answer = FALSE
    /\ resolve_role = ""
    /\ resolved = {}
    /\ clients = <<>>
    /\ set_calls = <<>>
    /\ requests = <<>>
    /\ calls = 0
    /\ http_clients = <<>>
    /\ with_blocks = <<>>
    /\ login_client = <<>>
    /\ login_response = <<>>
    /\ login_request = <<>>
    /\ login_outcome = NoOutcome
    /\ api_requests = <<>>
    /\ grant_case = <<>>
    /\ grant_results = <<>>
    /\ signed_tokens = <<>>
    /\ signed_outcomes = <<>>
    /\ auth_http_calls = <<>>
    /\ lazy_self = <<>>
    /\ lazy_heap = <<>>
    /\ lazy_sent = <<>>
    /\ lazy_supplied = None
    /\ lazy_last = None
    /\ invitation_token = ""
    /\ invitation_response = <<>>
    /\ invitation_outcome = NoOutcome
    /\ flag_key = ""
    /\ flag_default = <<>>
    /\ flag_response = <<>>
    /\ flag_outcome = NoOutcome
    /\ chain \in [a : ChainStrings, b : ChainStrings, c : ChainStrings]
    /\ chain_results = <<>>
    /\ pc = "call"

MatchPairs ==
    /\ pc = "call"
    /\ chain_results' = [ab |-> matches_permission(chain.a, chain.b),
                         bc |-> matches_permission(chain.b, chain.c),
                         ac |-> matches_permission(chain.a, chain.c),
                         aa |-> matches_permission(chain.a, chain.a)]
    /\ pc' = "done"
    /\ UNCHANGED <<matcherVars, listVars, ctxVars, roleVars, resolveVars, clientVars, withVars, loginVars, apiVars, grantVars, signedVars, lazyVars, invitationVars, flagVars, chain>>

NextChain == MatchPairs

SpecChain == InitChain /\ [][NextChain]_vars

----------------------------------------------------------------------------
(* The shape of a permission string, stated on its characters (not through  *)
(* split): the properties below compare the matcher with this reading.      *)

Colons(s) == {i \in 1..Len(s) : s[i] = ":"}

\* Exactly one separator: the shape resource:action.
TwoSegment(s) == Cardinality(Colons(s)) = 1

ColonAt(s) == CHOOSE i \in Colons(s) : TRUE
Resource(s) == SubSeq(s, 1, ColonAt(s) - 1)
Action(s) == SubSeq(s, ColonAt(s) + 1, Len(s))

\* Two non-empty segments.
WellFormed(s) == TwoSegment(s) /\ Resource(s) # <<>> /\ Action(s) # <<>>

STAR_STAR == <<"*", ":", "*">>

----------------------------------------------------------------------------
(* Properties of matches_permission (specification Spec) *)

\* C1: a granted permission that is the bare "*" matches every required
\* string, so the call returns True whenever user_permission is "*".
C1_SuperWildcard ==
    (pc = "done" /\ user_permission = STAR) => result = TRUE

\* C4: when the granted string is not the bare "*" and either string is not
\* of two non-empty segments, the call returns False.
C4_MalformedFailClosed ==
    (/\ pc = "done"
     /\ user_permission # STAR
     /\ (~WellFormed(user_permission) \/ ~WellFormed(required)))
    => result = FALSE

\* C5: for two strings of the shape resource:action the call returns True
\* exactly when the granted resource is "*" or the required resource, and the
\* granted action is "*" or the required action.
C5_SegmentRule ==
    (pc = "done" /\ TwoSegment(user_permission) /\ TwoSegment(required))
    => (result <=>
            /\ (Resource(user_permission) = STAR
                \/ Resource(user_permission) = Resource(required))
            /\ (Action(user_permission) = STAR
                \/ Action(user_permission) = Action(required)))

\* C5 witness: "u:*" was matched against "u:r" and the call returned True.
C5_Witness ==
    /\ pc = "done"
    /\ user_permission = <<"u", ":", "*">>
    /\ required = <<"u", ":", "r">>
    /\ result = TRUE

\* C8: a well-formed permission matches itself.
C8_Reflexive ==
    (pc = "done" /\ WellFormed(user_permission) /\ required = user_permission)
    => result = TRUE

\* C8 witness: "*:r" was matched against itself.
C8_Witness ==
    /\ pc = "done"
    /\ user_permission = <<"*", ":", "r">>
    /\ required = user_permission
    /\ result = TRUE

----------------------------------------------------------------------------
(* Properties of has_any_permission and has_all_permissions (SpecLists) *)

\* Some granted permission matches the required permission r.
Granted(r) ==
    \E j \in 1..Len(user_permissions) : matches_permission(user_permissions[j], r)

\* C6: has_any_permission returns True exactly when some required permission
\* is matched by some granted permission; it returns False when either list
\* is empty.
C6_HasAnyIffExists ==
    pc = "any" =>
        /\ list_result <=> \E i \in 1..Len(required_list) : Granted(required_list[i])
        /\ (user_permissions = <<>> \/ required_list = <<>>) => list_result = FALSE

\* C6 witness: the call returned True on the strength of the second required
\* permission and the second granted one.
C6_Witness ==
    /\ pc = "any"
    /\ user_permissions = <<Perm(REPORTS, READ), Perm(USERS, <<"*">>)>>
    /\ required_list = <<USERS, Perm(USERS, READ)>>
    /\ list_result = TRUE

\* C7: has_all_permissions returns True exactly when every required
\* permission is matched by some granted permission; it returns True for an
\* empty required list.
C7_HasAllIffForall ==
    pc = "all" =>
        /\ list_result <=> \A i \in 1..Len(required_list) : Granted(required_list[i])
        /\ required_list = <<>> => list_result = TRUE

\* C7 witness: two required permissions, each matched by a different grant.
C7_Witness ==
    /\ pc = "all"
    /\ user_permissions = <<Perm(REPORTS, READ), Perm(USERS, <<"*">>)>>
    /\ required_list = <<Perm(USERS, READ), Perm(REPORTS, READ)>>
    /\ list_result = TRUE

----------------------------------------------------------------------------
(* Properties of get_user_context and UserContext.has_permission (SpecCtx) *)

\* The token's explicit permissions and roles (the claims' defaults when absent).
TokenPermissions == Get(token.claims, "permissions", <<>>)
TokenRoles == Get(token.claims, "roles", <<>>)

\* Some explicit permission of the token grants the permission asked for:
\* it is that permission, "resource:*" for its resource, or the bare "*".
ExplicitGrant ==
    \E j \in 1..Len(TokenPermissions) :
        TokenPermissions[j] \in
            {<<"*">>, permission, Perm(Resource(permission), <<"*">>)}

\* Some permission in the resolved closure of a role of the token matches it.
RoleMatch ==
    \E i \in 1..Len(TokenRoles) :
        \E g \in get_role_permissions(TokenRoles[i]) : matches(g, permission)

C10_MissingSubjectRejected ==
    (/\ pc # "start"
     /\ token.kind = "jwt"
     /\ Get(token.claims, "sub", "") = "")
    => outcome.exc = "InvalidTokenError"


\* C11: for a token whose expiry claim is in the past, get_user_context
\* raises TokenExpiredError and constructs no context.
C11_ExpiredTokenRejected ==
    (pc # "start" /\ token.kind = "jwt" /\ token.expired)
    => outcome.exc = "TokenExpiredError"

\* C12: a token that does not parse into claims makes get_user_context raise
\* InvalidTokenError (no other exception), and a context is returned only
\* for a token that parses.
C12_UndecodableIsInvalidToken ==
    pc # "start" =>
        /\ token.kind # "jwt" => outcome.exc = "InvalidTokenError"
        /\ outcome.exc = "none" => token.kind = "jwt"

\* C12 witness: a string with too few segments was refused with
\* InvalidTokenError.
C12_Witness ==
    /\ pc = "raised"
    /\ token = [kind |-> "malformed", why |-> "not_enough_segments"]
    /\ outcome = Raise("InvalidTokenError")


\* The token holds the role name r.
TokenHasRole(r) == \E i \in 1..Len(TokenRoles) : TokenRoles[i] = r

\* The token holds role admin, role super_admin, or a role whose resolved
\* permissions hold the super-wildcard.
AdminByRole ==
    \/ TokenHasRole("admin")
    \/ TokenHasRole("super_admin")
    \/ \E i \in 1..Len(TokenRoles) : <<"*">> \in get_role_permissions(TokenRoles[i])

C14_IsSuperAdmin ==
    pc = "is_super_admin" =>
        /\ TokenHasRole("super_admin") => answer = TRUE
        /\ (\E j \in 1..Len(TokenPermissions) : TokenPermissions[j] = <<"*">>)
            => answer = TRUE

\* C14 witness: claims {sub: u1, permissions: ["*"]}, is_super_admin
\* returned True.
C14_Witness ==
    /\ pc = "is_super_admin"
    /\ token.claims = [sub |-> "u1", permissions |-> <<(<<"*">>)>>]
    /\ answer = TRUE

\* C15: has_role(r) is true exactly when r is one of the context's own
\* roles, has_any_role(rs) exactly when some name of rs is; inherited roles
\* do not count.
C15_RoleMembership ==
    /\ pc = "has_role" => (answer <=> TokenHasRole(asked_role))
    /\ pc = "has_any_role" =>
        (answer <=> \E j \in 1..Len(role_names) : TokenHasRole(role_names[j]))

\* C15 witness: roles [admin], has_role("user") returned False.
C15_Witness ==
    /\ pc = "has_role"
    /\ outcome.ret.roles = <<"admin">>
    /\ asked_role = "user"
    /\ answer = FALSE


----------------------------------------------------------------------------
(* Properties of get_role_permissions (SpecRoles) *)

\* The permissions each built-in role grants directly.
UserDirect == {Perm(PROFILE, <<"*">>), Perm(NOTIFICATIONS, READ)}
ManagerDirect == {Perm(TEAM, <<"*">>)}
AdminDirect == {Perm(USERS, <<"*">>), Perm(SETTINGS, <<"*">>)}

\* C16: the resolved permissions of a role are its direct permissions and
\* the resolved permissions of its parents: admin's set holds manager's,
\* which holds user's; admin's holds users:*, settings:*, team:* and
\* profile:*, and user's does not hold users:*.
C16_TransitiveClosure ==
    pc # "start" =>
        /\ resolve_role = "user" => resolved = UserDirect
        /\ resolve_role = "manager" => resolved = ManagerDirect \cup UserDirect
        /\ resolve_role = "admin" =>
            /\ resolved = AdminDirect \cup ManagerDirect \cup UserDirect
            /\ get_role_permissions("manager") \subseteq resolved
        /\ resolve_role = "manager" => get_role_permissions("user") \subseteq resolved
        /\ resolve_role = "user" => Perm(USERS, <<"*">>) \notin resolved

\* C16 witness: admin resolved to a set holding the inherited team:* and
\* profile:*, and users:delete was then granted.
C16_Witness ==
    /\ pc = "checked"
    /\ resolve_role = "admin"
    /\ {Perm(TEAM, <<"*">>), Perm(PROFILE, <<"*">>)} \subseteq resolved
    /\ permission = Perm(USERS, DELETE)
    /\ allowed = TRUE

\* C17: a role name that is not in the table resolves to the empty set, and
\* nothing is granted on the strength of it.
C17_UnknownRoleResolvesEmpty ==
    (pc # "start" /\ resolve_role \notin {"user", "manager", "admin", "super_admin"})
    => /\ resolved = {}
       /\ pc = "checked" => allowed = FALSE

\* C17 witness: unknown_role resolved to the empty set and profile:read was
\* refused.
C17_Witness ==
    /\ pc = "checked"
    /\ resolve_role = "unknown_role"
    /\ resolved = {}
    /\ permission = Perm(PROFILE, READ)
    /\ allowed = FALSE


----------------------------------------------------------------------------
(* Properties of the scopes of the returned context (SpecCtx) *)

\* The scope claim of the token, the empty string when absent.
TokenScope == Get(token.claims, "scope", <<>>)

\* The positions where a word of s begins: a character that is not
\* whitespace, at the start of s or after whitespace.
WordStarts(s) ==
    {i \in 1..Len(s) : s[i] \notin Whitespace /\ (i = 1 \/ s[i - 1] \in Whitespace)}

\* The n-th of those positions.
NthWordStart(s, n) ==
    CHOOSE i \in WordStarts(s) : Cardinality({j \in WordStarts(s) : j < i}) = n - 1

\* The word of s that begins at position i: up to the next whitespace.
WordAt(s, i) ==
    SubSeq(s, i, CHOOSE e \in i..Len(s) :
                    /\ \A k \in i..e : s[k] \notin Whitespace
                    /\ (e = Len(s) \/ s[e + 1] \in Whitespace))

\* C19: the scopes of a returned context are the whitespace-separated words
\* of the scope claim, in their order, duplicates kept; the empty sequence
\* when the claim is absent or empty.
C19_ScopesAreTheWords ==
    (pc # "start" /\ outcome.exc = "none") =>
        LET scopes == outcome.ret.scopes
        IN  /\ Len(scopes) = Cardinality(WordStarts(TokenScope))
            /\ \A n \in 1..Len(scopes) :
                scopes[n] = WordAt(TokenScope, NthWordStart(TokenScope, n))
            /\ TokenScope = <<>> => scopes = <<>>

\* C19 witness: the scope claim "r  r " gave the scopes [r, r].
C19_Witness ==
    /\ pc = "context"
    /\ "scope" \in DOMAIN token.claims
    /\ token.claims["scope"] = <<"r", " ", " ", "r", " ">>
    /\ outcome.ret.scopes = << <<"r">>, <<"r">> >>


----------------------------------------------------------------------------
(* Properties of set_access_token (SpecClient) *)

\* C20: once set_access_token has been called on a client, its
\* Authorization header is "Bearer " followed by the token set last, and
\* every request sent after a call carried the token set last before it.
C20_LatestTokenIsSent ==
    \A c \in DOMAIN clients :
        /\ set_calls[c] # <<>> =>
            /\ "Authorization" \in DOMAIN clients[c].headers
            /\ clients[c].headers["Authorization"]
                   = "Bearer " \o set_calls[c][Len(set_calls[c])]
        /\ \A k \in 1..Len(requests[c]) :
            requests[c][k].tokens_set > 0 =>
                requests[c][k].authorization
                    = "Bearer " \o set_calls[c][requests[c][k].tokens_set]

\* C20 witness: a UserClient built with tok1 was given tok2 and then sent a
\* request carrying "Bearer tok2".
C20_Witness ==
    /\ pc = "ready"
    /\ set_calls["UserClient"] = <<"tok2">>
    /\ requests["UserClient"] = <<[authorization |-> "Bearer tok2", tokens_set |-> 1]>>
    /\ clients["UserClient"].access_token = "tok2"


----------------------------------------------------------------------------
(* Properties of the context managers (SpecWith) *)

\* C21: the HTTP client of a client used as a context manager has not been
\* closed before its with-block is left, and has been closed exactly once
\* after the block is left, whether it ended normally or by an exception.
C21_ClosedOnceOnLeaving ==
    \A c \in DOMAIN with_blocks :
        /\ with_blocks[c].at \in {"before", "inside"} => http_clients[c].closes = 0
        /\ with_blocks[c].at = "left" => http_clients[c].closes = 1

\* C21 witness: the UserClient block was left by an exception after a
\* statement ran, the AuthClient block ended normally, and the
\* NotificationClient block is still running.
C21_Witness ==
    /\ DOMAIN with_blocks = WithClients
    /\ with_blocks["UserClient"] = [at |-> "left", steps |-> 1, ended |-> "Exception"]
    /\ with_blocks["AuthClient"].at = "left"
    /\ with_blocks["AuthClient"].ended = None
    /\ with_blocks["NotificationClient"].at = "inside"
    /\ http_clients["UserClient"].closes = 1


----------------------------------------------------------------------------
(* Properties of AuthClient.login (SpecLogin) *)

\* C22: login returns a TokenResponse exactly when the server answered 200;
\* a 401 raises UnauthorizedError even when its body names an error; any
\* other status raises AuthError with the body's error and
\* error_description, "unknown_error" and "Authentication failed" standing
\* in for a missing field.
C22_LoginStatusMapping ==
    (pc = "done" /\ login_request # <<>>) =>
        LET st == login_response.status_code
            body == login_response.json
        IN  /\ (login_outcome.exc = "none") <=> (st = 200)
            /\ st = 200 => login_outcome.ret.type = "TokenResponse"
            /\ st = 401 => login_outcome.exc = "UnauthorizedError"
            /\ st \notin {200, 401} =>
                /\ login_outcome.exc = "AuthError"
                /\ login_outcome.error =
                     (IF "error" \in DOMAIN body THEN body["error"] ELSE "unknown_error")
                /\ login_outcome.description =
                     (IF "error_description" \in DOMAIN body
                      THEN body["error_description"] ELSE "Authentication failed")

\* C22 witness: a 401 whose body carries an error field was answered by
\* UnauthorizedError.
C22_Witness ==
    /\ pc = "done"
    /\ login_request # <<>>
    /\ login_response.status_code = 401
    /\ "error" \in DOMAIN login_response.json
    /\ login_outcome = UnauthorizedError("Invalid credentials")


----------------------------------------------------------------------------
(* Properties of the FastAPI integration (SpecApi) *)

\* C23: the SDK call made while handling a request carries that request's
\* own bearer token, whatever the other request in flight does.
C23_CallCarriesOwnToken ==
    \A r \in DOMAIN api_requests :
        api_requests[r].at = "called" =>
            api_requests[r].sent = "Bearer " \o api_requests[r].credentials


----------------------------------------------------------------------------
(* The wildcard on the required side (Spec) *)

\* C24: a "*" segment of the required permission is compared literally: when
\* the required resource is "*" and the granted resource is not, the call
\* returns False, and likewise for the action, so a granted permission with
\* a concrete segment never satisfies a requirement with "*" in that place.
C24_RequiredWildcardIsLiteral ==
    (pc = "done" /\ TwoSegment(required) /\ TwoSegment(user_permission)) =>
        /\ (Resource(required) = STAR /\ Resource(user_permission) # STAR) => result = FALSE
        /\ (Action(required) = STAR /\ Action(user_permission) # STAR) => result = FALSE

\* C24 witness: the granted "u:r" was matched against the required "u:*" and
\* the call returned False.
C24_Witness ==
    /\ pc = "done"
    /\ user_permission = <<"u", ":", "r">>
    /\ required = <<"u", ":", "*">>
    /\ result = FALSE


----------------------------------------------------------------------------
(* Properties of the list checks under changes of the lists (SpecGrants) *)

\* C25: a True result of has_any_permission or has_all_permissions stays
\* True when the granted list is extended, and the result of either
\* function is the same after the granted or the required list was
\* reordered or had elements repeated.
C25_MonotoneAndOrderIndependent ==
    pc = "compared" =>
        /\ grant_results.kind = "extended" =>
            /\ grant_results.any_before => grant_results.any_after
            /\ grant_results.all_before => grant_results.all_after
        /\ grant_results.kind = "rearranged" =>
            /\ grant_results.any_after = grant_results.any_before
            /\ grant_results.all_after = grant_results.all_before

\* C25 witness: ["reports:read", "users:read"] satisfied any but not all of
\* ["users:read", "users:*"], and so did the granted list with its two
\* elements swapped and the first one repeated.
C25_Witness ==
    /\ pc = "compared"
    /\ grant_case.granted = <<Perm(REPORTS, READ), Perm(USERS, READ)>>
    /\ grant_case.required = <<Perm(USERS, READ), Perm(USERS, <<"*">>)>>
    /\ grant_results.kind = "rearranged"
    /\ grant_results.granted = <<Perm(USERS, READ), Perm(REPORTS, READ), Perm(USERS, READ)>>
    /\ grant_results.any_after = TRUE
    /\ grant_results.all_after = FALSE


----------------------------------------------------------------------------
(* Properties of get_user_context on signed tokens (SpecSigned) *)

\* C26: two tokens with the same claims give the same outcome of
\* get_user_context whatever key each was signed with; every context
\* returned has is_authenticated true; and the calls sent no request.
C26_ContextFromClaimsAlone ==
    pc = "decoded" =>
        /\ (/\ signed_tokens[1].kind = "jwt"
            /\ signed_tokens[2].kind = "jwt"
            /\ signed_tokens[1].claims = signed_tokens[2].claims)
                => (/\ signed_outcomes.first.exc = "none"
                    /\ signed_outcomes.second = signed_outcomes.first)
        /\ signed_outcomes.first.exc = "none" => signed_outcomes.first.ret.is_authenticated = TRUE
        /\ signed_outcomes.second.exc = "none" => signed_outcomes.second.ret.is_authenticated = TRUE
        /\ Len(auth_http_calls) = signed_outcomes.sent_before

\* C26 witness: a token signed with key1 and a forged one with the same
\* claims both gave the context of user-123.
C26_Witness ==
    /\ pc = "decoded"
    /\ signed_tokens[1].kind = "jwt"
    /\ signed_tokens[2].kind = "jwt"
    /\ signed_tokens[1].signature = "key1"
    /\ signed_tokens[2].signature = "forged"
    /\ signed_tokens[1].claims = signed_tokens[2].claims
    /\ signed_outcomes.first.exc = "none"
    /\ signed_outcomes.first.ret.user_id = "user-123"
    /\ signed_outcomes.second.ret.user_id = "user-123"


----------------------------------------------------------------------------
(* Properties of the lazily created HTTP client (SpecLazy) *)

LiveClients == {i \in DOMAIN lazy_heap : lazy_heap[i].closes = 0}

\* C27: at most one HTTP client is live, and it is the one _client names;
\* no client object is closed twice and after close none is live; a request
\* made when there was no live client (at first, or after close) was sent
\* through a client created for it; and every request was sent through an
\* open client with "Bearer t" for the token t supplied last, or without
\* Authorization when no token was ever supplied.
C27_LazyClientLifecycle ==
    /\ Cardinality(LiveClients) <= 1
    /\ LiveClients = (IF lazy_self.client = NoClient THEN {} ELSE {lazy_self.client})
    /\ \A i \in DOMAIN lazy_heap : lazy_heap[i].closes <= 1
    /\ lazy_last = "close" => LiveClients = {}
    /\ \A k \in DOMAIN lazy_sent :
        /\ lazy_sent[k].closes = 0
        /\ lazy_sent[k].after \in {"__init__", "close"} => lazy_sent[k].created
        /\ lazy_sent[k].authorization =
              (IF lazy_sent[k].supplied = None THEN None
               ELSE "Bearer " \o lazy_sent[k].supplied)

\* C27 witness: a client built with tok1 sent a request, was given tok2 while
\* its HTTP client was live, sent a request, was closed and sent a third
\* request through a second HTTP client, the last two with "Bearer tok2".
C27_Witness ==
    /\ Len(lazy_sent) = 3
    /\ Len(lazy_heap) = 2
    /\ lazy_heap[1].closes = 1
    /\ lazy_sent[1].authorization = "Bearer tok1"
    /\ lazy_sent[2].via = 1
    /\ lazy_sent[2].authorization = "Bearer tok2"
    /\ lazy_sent[3].via = 2
    /\ lazy_sent[3].after = "close"
    /\ lazy_sent[3].authorization = "Bearer tok2"


----------------------------------------------------------------------------
(* Properties of validate_token and accept (SpecInvitation) *)

\* The error text of the answer, empty when the field is missing.
AnsweredError == Get(invitation_response.json, "error", <<>>)

\* The text holds the letters e-x-p-i-r-e-d in a row, each in either case.
SaysExpired(text) ==
    \E i \in 0..(Len(text) - 7) :
        \A j \in 1..7 :
            \/ text[i + j] = EXPIRED[j]
            \/ \E k \in DOMAIN UPPERCASE :
                    UPPERCASE[k] = text[i + j] /\ LOWERCASE[k] = EXPIRED[j]

\* C28: validate_token and accept raise TokenNotFoundError on 404; on 410
\* they raise TokenExpiredError when the body's error text contains
\* "expired" in any letter case and TokenRevokedError otherwise, a missing
\* error field included; an object is returned only for a status that is
\* none of these nor another error status.
C28_TokenFailurePrecedence ==
    pc \in {"validated", "accepted"} =>
        LET st == invitation_response.status_code
        IN  /\ st = 404 => invitation_outcome = TokenNotFoundError(invitation_token)
            /\ (st = 410 /\ SaysExpired(AnsweredError))
                    => invitation_outcome = TokenExpiredError(invitation_token)
            /\ (st = 410 /\ ~SaysExpired(AnsweredError))
                    => invitation_outcome = TokenRevokedError(invitation_token)
            /\ invitation_outcome.exc = "none" => st \notin {400, 404, 410, 500}
            /\ invitation_outcome.exc = "none" =>
                   invitation_outcome.ret.type =
                       (IF pc = "validated" THEN "ValidatedInvitation"
                        ELSE "AcceptInvitationResponse")

\* C28 witness: validate_token was answered 410 with the error text
\* "TOKEN EXPIRED" and raised TokenExpiredError.
C28_Witness ==
    /\ pc = "validated"
    /\ invitation_response.status_code = 410
    /\ AnsweredError = <<"T", "O", "K", "E", "N", " ", "E", "X", "P", "I", "R", "E", "D">>
    /\ invitation_outcome = TokenExpiredError(invitation_token)


----------------------------------------------------------------------------
(* Properties of the feature-flag fallback (SpecFlags) *)

\* C29: when the server answers 404, evaluate returns an evaluation of the
\* asked key with reason "flag_not_found", the caller's default as value,
\* and enabled equal to the default when it is a boolean and False
\* otherwise; is_enabled returns its default and get_value returns its
\* default.
C29_UnknownFlagFallsBack ==
    (pc \in {"evaluate", "is_enabled", "get_value"} /\ flag_response.status_code = 404) =>
        /\ flag_outcome.exc = "none"
        /\ pc = "evaluate" =>
            /\ flag_outcome.ret.key = flag_key
            /\ flag_outcome.ret.reason = "flag_not_found"
            /\ flag_outcome.ret.value = flag_default
            /\ flag_outcome.ret.enabled =
                  (IF flag_default.type = "bool" THEN flag_default ELSE PyBool(FALSE))
        /\ pc = "is_enabled" => flag_outcome.ret = flag_default
        /\ pc = "get_value" => flag_outcome.ret = flag_default

\* C29 witness: is_enabled with default True was answered 404 and returned
\* True.
C29_Witness ==
    /\ pc = "is_enabled"
    /\ flag_response.status_code = 404
    /\ flag_default = PyBool(TRUE)
    /\ flag_outcome = Return(PyBool(TRUE))


----------------------------------------------------------------------------
(* The matcher as a preorder (SpecChain) *)

\* C30: for two-segment strings a, b, c, when a matches b and b matches c
\* then a matches c, and a matches itself.
C30_Preorder ==
    (pc = "done" /\ TwoSegment(chain.a) /\ TwoSegment(chain.b) /\ TwoSegment(chain.c)) =>
        /\ (chain_results.ab /\ chain_results.bc) => chain_results.ac
        /\ chain_results.aa

\* C30 witness: "*:*" matched "u:*", "u:*" matched "u:r", and "*:*" matched
\* "u:r".
C30_Witness ==
    /\ pc = "done"
    /\ chain.a = STAR_STAR
    /\ chain.b = <<"u", ":", "*">>
    /\ chain.c = <<"u", ":", "r">>
    /\ chain_results.ab = TRUE
    /\ chain_results.bc = TRUE
    /\ chain_results.ac = TRUE

====
